---- MODULE Spec2Model ----
(***************************************************************************)
(* Model of pico_sqlalchemy's SessionManager: the ambient transaction      *)
(* context (_tx_context), the six propagation branches of                  *)
(* SessionManager.transaction and the scoped lifecycle of                  *)
(* SessionManager._start_transaction, driven by arbitrary units of work    *)
(* (the bodies of the callers' `with` blocks).                             *)
(*                                                                         *)
(* A call of transaction() is a generator-based context manager: the code  *)
(* up to its `yield` runs in one step (the Enter* actions), the code after *)
(* the `yield` in another (the Exit* actions).  A frame of `stack` is one  *)
(* suspended generator; its `pc` is the source line of the `yield` it is   *)
(* suspended at.                                                           *)
(***************************************************************************)
EXTENDS Integers, Sequences, FiniteSets, TLC

VARIABLES
    slot,       \* slot[t]: value of the context variable _tx_context in task t
    stack,      \* stack[t]: the transaction() generators task t is inside of
    raised,     \* raised[t]: the exception propagating in task t, or NoExc
    sessions,   \* sessions[s]: the Session objects create_session has returned
    db,         \* rows committed to the database
    log,        \* calls the manager has made on the sessions, in order
    last,       \* last[t]: the call of task t that has just ended and how it
                \* ended; NoCall once the task has taken another step
    started     \* the tasks that run: each has a context of its own

vars == <<slot, stack, raised, sessions, db, log, last, started>>

----------------------------------------------------------------------------
\* Bounds of the model.
MaxSessions == 2    \* sessions the factory hands out in one behaviour
MaxDepth == 3       \* nesting depth of transaction() calls in one task
MaxWrites == 1      \* rows a unit of work adds through one session
MaxTaskDepth == 2   \* nesting depth of the calls when several tasks run
MaxSorts == 2       \* sorts in one PageRequest
MaxQueries == 1     \* repository queries run through one session

\* The logical tasks (threads or asyncio tasks) there can be; MainTask is the
\* one that runs from the start.
Tasks == {"t1", "t2"}
MainTask == "t1"

\* Python's None: the default of _tx_context and of get_current_session().
None == 0

----------------------------------------------------------------------------
\* Exceptions.  An exception is [cls, msg]; classification looks at cls only.

ExcClasses == {"BaseException", "Exception", "ValueError", "RuntimeError",
               "SQLAlchemyError", "CancelledError"}

\* The classes cls is an instance of (Python's builtin hierarchy; CancelledError
\* and KeyboardInterrupt derive from BaseException, not from Exception).
Ancestors(cls) ==
    CASE cls = "BaseException"  -> {"BaseException"}
      [] cls = "CancelledError" -> {"CancelledError", "BaseException"}
      [] cls = "Exception"      -> {"Exception", "BaseException"}
      [] OTHER                  -> {cls, "Exception", "BaseException"}

\* isinstance(e, classes) for a tuple of classes.
IsInstance(e, classes) == \E c \in classes : c \in Ancestors(e.cls)

NoExc == [cls |-> "None", msg |-> "None"]
MandatoryError == [cls |-> "RuntimeError", msg |-> "MANDATORY propagation requires active transaction"]
NeverError     == [cls |-> "RuntimeError", msg |-> "NEVER propagation forbids active transaction"]
UnknownError   == [cls |-> "ValueError", msg |-> "Unknown propagation"]
FactoryError   == [cls |-> "SQLAlchemyError", msg |-> "create_session failed"]
IsolationError == [cls |-> "SQLAlchemyError", msg |-> "connection failed"]
CommitError    == [cls |-> "SQLAlchemyError", msg |-> "commit failed"]

\* What a unit of work raises.
UowFailures == {[cls |-> c, msg |-> "unit of work"] :
                    c \in {"ValueError", "CancelledError"}}

----------------------------------------------------------------------------
\* Inputs of transaction().

IsolationLevels == {"None", "SERIALIZABLE"}

Propagations == {"REQUIRED", "REQUIRES_NEW", "SUPPORTS", "MANDATORY",
                 "NOT_SUPPORTED", "NEVER", "UNKNOWN"}
\* (rollback_for, no_rollback_for): the default, a carve-out of the default,
\* and a pair under which a failure can match no_rollback_for alone.
Policies == {[rollback_for |-> {"Exception"}, no_rollback_for |-> {}],
             [rollback_for |-> {"Exception"}, no_rollback_for |-> {"ValueError"}],
             [rollback_for |-> {"ValueError"}, no_rollback_for |-> {"CancelledError"}]}

\* The descriptors calls are made with: every propagation with the defaults of
\* lines 73-77, and REQUIRED and REQUIRES_NEW (the two that reach
\* _start_transaction, REQUIRED also joining) with every combination.
Descriptor(p, ro, iso, pol) ==
    [propagation |-> p, read_only |-> ro, isolation_level |-> iso,
     rollback_for |-> pol.rollback_for, no_rollback_for |-> pol.no_rollback_for]

DefaultPolicy == [rollback_for |-> {"Exception"}, no_rollback_for |-> {}]

Descriptors ==
    {Descriptor(p, FALSE, "None", DefaultPolicy) : p \in Propagations}
    \cup {Descriptor(p, ro, iso, pol) :
             p \in {"REQUIRED", "REQUIRES_NEW"}, ro \in BOOLEAN,
             iso \in IsolationLevels, pol \in Policies}

\* The yields of transaction(), by source line.
JoinYields == {90, 132, 175}
UnscopedYields == {100, 112, 124, 137}
ScopedYields == {155, 169, 184}
SuspendedYields == {112, 155}

----------------------------------------------------------------------------
\* The SessionManager instances, each with an engine and a session factory of
\* its own (lines 35-56); the first is the one the callers use unless they name
\* the other.
Managers == {"m1", "m2"}
DefaultManager == "m1"

\* The world a step of the manager acts on: the sessions, the database, the
\* log, the calling task and its slot.

World(t) == [sessions |-> sessions, db |-> db, log |-> log, slot |-> slot[t],
             task |-> t, manager |-> DefaultManager]

\* The world as the call's manager acts on it: self is call.manager.
Self(w, call) == [w EXCEPT !.manager = call.manager]

Install(t, w) ==
    /\ sessions' = w.sessions
    /\ db' = w.db
    /\ log' = w.log
    /\ slot' = [slot EXCEPT ![t] = w.slot]

Logged(w, op, s) == [w EXCEPT !.log = Append(@, <<op, s>>)]

\* self.create_session(): the next Session object, open and empty, made by the
\* manager's factory for the calling task.
CreateSession(w) ==
    LET s == Len(w.sessions) + 1 IN
    Logged([w EXCEPT !.sessions = Append(@, [state |-> "open", pending |-> {},
                                             writes |-> 0, owner |-> w.task,
                                             manager |-> w.manager])],
           "create", s)

\* session.connection(execution_options={"isolation_level": ...})
ApplyIsolation(w, s) == Logged(w, "isolation", s)

\* session.connection(...) raising: the level is not applied.
ApplyIsolationFails(w, s) == Logged(w, "isolation_failed", s)

\* session.add(row) in a unit of work: the row is pending in the session.
SessionAdd(w, s) ==
    LET k == w.sessions[s].writes + 1 IN
    [w EXCEPT !.sessions[s].pending = @ \cup {<<s, k>>},
              !.sessions[s].writes = k]

\* session.commit(): the pending rows reach the database.
SessionCommit(w, s) ==
    Logged([w EXCEPT !.db = @ \cup w.sessions[s].pending,
                     !.sessions[s].pending = {}],
           "commit", s)

\* session.commit() raising: nothing reaches the database.
SessionCommitFails(w, s) == Logged(w, "commit_failed", s)

\* A rollback that reaches past the session: committed rows are undone too.
SessionRollbackAll(w, s) ==
    Logged([w EXCEPT !.sessions[s].pending = {}, !.db = {}], "rollback", s)

\* session.rollback(): the pending rows are discarded.
SessionRollback(w, s) ==
    Logged([w EXCEPT !.sessions[s].pending = {}], "rollback", s)

\* session.close(): releases the connection; what was not committed is lost.
SessionClose(w, s) ==
    Logged([w EXCEPT !.sessions[s].pending = {},
                     !.sessions[s].state = "closed"],
           "close", s)

\* token = _tx_context.set(value); the token remembers the value replaced.
ContextSet(w, value) == [w EXCEPT !.slot = value]

\* _tx_context.reset(token): the slot holds again what the token remembers.
ContextReset(w, old) == [w EXCEPT !.slot = old]

\* What a transaction sees through session s: the database and its own writes.
Visible(s) == db \cup sessions[s].pending

\* SessionManager.get_current_session()
GetCurrentSession(t) == slot[t]

----------------------------------------------------------------------------
\* Frames and calls.

\* The arguments of one call of transaction() and the slot it found (line 79).
Call(propagation, current, read_only, isolation_level, rollback_for, no_rollback_for) ==
    [propagation |-> propagation, current |-> current, read_only |-> read_only,
     isolation_level |-> isolation_level, rollback_for |-> rollback_for,
     no_rollback_for |-> no_rollback_for, manager |-> DefaultManager]

\* The same call made on manager m.
CallOn(m, call) == [call EXCEPT !.manager = m]

\* A generator of transaction() suspended at the yield of line pc: the session
\* it yielded, the tokens it holds and the arguments _start_transaction was
\* called with (the other branches pass theirs nowhere).
Frame(pc, call, session, token, parent_token) ==
    [pc |-> pc, propagation |-> call.propagation, current |-> call.current,
     manager |-> call.manager,
     session |-> session, token |-> token, parent_token |-> parent_token,
     isolation_level |-> IF pc \in ScopedYields THEN call.isolation_level
                                                ELSE "None",
     read_only |-> IF pc \in ScopedYields THEN call.read_only ELSE FALSE,
     rollback_for |-> IF pc \in ScopedYields THEN call.rollback_for ELSE {},
     no_rollback_for |-> IF pc \in ScopedYields THEN call.no_rollback_for ELSE {}]

Top(t) == stack[t][Len(stack[t])]
Push(t, f) == stack' = [stack EXCEPT ![t] = Append(@, f)]
Pop(t) == stack' = [stack EXCEPT ![t] = SubSeq(@, 1, Len(@) - 1)]

\* The record of an ended call: the frame it had (for a call that raised before
\* its yield, the frame it would have had, at the line that raised), the
\* exception its unit of work ended with and the exception the call ended with.
Ended(f, exc, out) == [frame |-> f, exc |-> exc, out |-> out]

NoCall == Ended(Frame(0, Call("NONE", None, FALSE, "None", {}, {}), None, None, None),
                NoExc, NoExc)

\* The task moves on from the call that has just ended.
Forget(t) == last' = [last EXCEPT ![t] = NoCall]

\* The call raises e at line pc, before reaching a yield: no frame is left.
Fail(t, w, pc, call, s, e) ==
    /\ Install(t, w)
    /\ raised' = [raised EXCEPT ![t] = e]
    /\ last' = [last EXCEPT ![t] = Ended(Frame(pc, call, s, None, None), NoExc, e)]
    /\ UNCHANGED stack

\* The call yields session s to the unit of work.
Yield(t, w, f) ==
    /\ Install(t, w)
    /\ Push(t, f)
    /\ Forget(t)
    /\ UNCHANGED raised

\* A joining call that applies its own isolation level to the session it joins.
JoinAppliesIsolation(t, pc, call) ==
    Yield(t, IF call.isolation_level # "None"
             THEN ApplyIsolation(World(t), call.current) ELSE World(t),
          Frame(pc, call, call.current, None, None))

\* A slot kept per manager: a call joins only a session of its own manager and
\* starts a transaction of its own beside another manager's.
JoinOwnManagerOnly(t, pc, call) ==
    IF sessions[call.current].manager = call.manager
    THEN Yield(t, World(t), Frame(pc, call, call.current, None, None))
    ELSE /\ Len(sessions) < MaxSessions
         /\ LET s  == Len(sessions) + 1
                w1 == CreateSession(Self(World(t), call))
            IN Yield(t, Logged(ContextSet(w1, s), "set", s),
                     Frame(184, call, s, call.current, call.current))

\* A call that joins: `yield current.session` (lines 90, 132, 175).
Join(t, pc, call) ==
    Yield(t, World(t), Frame(pc, call, call.current, None, None))

\* The try/finally around an unscoped session (lines 98-100, 110-112, 122-124,
\* 135-137), entered with world w; line 117 resets the token of line 108 when
\* create_session raises.
StartUnscoped(t, w, pc, call) ==
    \E created \in BOOLEAN :
    LET s == Len(w.sessions) + 1 IN
    IF created
    THEN Yield(t, CreateSession(Self(w, call)), Frame(pc, call, s, None, call.current))
    ELSE Fail(t, IF pc \in SuspendedYields THEN ContextReset(w, call.current) ELSE w,
              pc - 2, call, None, FactoryError)

\* _start_transaction publishing the session before it applies the isolation
\* level.
StartTransactionPublishesFirst(t, w, pc, call) ==
    \E created \in BOOLEAN,
       isolated \in IF call.isolation_level # "None" THEN BOOLEAN ELSE {TRUE} :
    LET s  == Len(w.sessions) + 1
        w1 == CreateSession(Self(w, call))
        w2 == Logged(ContextSet(w1, s), "set", s)
        w3 == IF call.isolation_level # "None" THEN ApplyIsolation(w2, s) ELSE w2
        Unwind(wx) == IF pc \in SuspendedYields
                      THEN ContextReset(wx, call.current) ELSE wx
    IN
    IF ~created
    THEN Fail(t, Unwind(w), 197, call, None, FactoryError)
    ELSE IF ~isolated
    THEN Fail(t, Unwind(ApplyIsolationFails(w1, s)), 200, call, s, IsolationError)
    ELSE Yield(t, w3, Frame(pc, call, s, w1.slot, call.current))

\* _start_transaction called outside the try/finally of lines 153-158: the token
\* of line 147 is not reset when it raises.
StartTransactionNoReset(t, w, pc, call) ==
    \E created \in BOOLEAN,
       isolated \in IF call.isolation_level # "None" THEN BOOLEAN ELSE {TRUE} :
    LET s  == Len(w.sessions) + 1
        w1 == CreateSession(Self(w, call))
        w2 == IF call.isolation_level # "None" THEN ApplyIsolation(w1, s) ELSE w1
        w3 == Logged(ContextSet(w2, s), "set", s)
    IN
    IF ~created
    THEN Fail(t, w, 197, call, None, FactoryError)
    ELSE IF ~isolated
    THEN Fail(t, ApplyIsolationFails(w1, s), 200, call, s, IsolationError)
    ELSE Yield(t, w3, Frame(pc, call, s, w2.slot, call.current))

\* SessionManager._start_transaction up to its yield (lines 197-205), entered
\* with world w from the `with` whose yield is at line pc; line 158 resets the
\* token of line 147 when it raises.
StartTransaction(t, w, pc, call) ==
    \E created \in BOOLEAN,
       isolated \in IF call.isolation_level # "None" THEN BOOLEAN ELSE {TRUE} :
    LET s  == Len(w.sessions) + 1
        w1 == CreateSession(Self(w, call))
        w2 == IF call.isolation_level # "None" THEN ApplyIsolation(w1, s) ELSE w1
        w3 == Logged(ContextSet(w2, s), "set", s)
        Unwind(wx) == IF pc \in SuspendedYields
                      THEN ContextReset(wx, call.current) ELSE wx
    IN
    IF ~created
    THEN Fail(t, Unwind(w), 197, call, None, FactoryError)
    ELSE IF ~isolated
    THEN Fail(t, Unwind(ApplyIsolationFails(w1, s)), 200, call, s, IsolationError)
    ELSE Yield(t, w3, Frame(pc, call, s, w2.slot, call.current))

----------------------------------------------------------------------------
\* SessionManager.transaction up to its yield, one action per branch.

CanCall(t) ==
    /\ raised[t] = NoExc
    /\ Len(stack[t]) < MaxDepth

CanOpen == Len(sessions) < MaxSessions

\* MANDATORY falling back to a transaction of its own when the slot is empty.
EnterMandatoryStarts(t, call) ==
    /\ call.propagation = "MANDATORY"
    /\ IF call.current = None
       THEN CanOpen /\ StartTransaction(t, World(t), 184, call)
       ELSE Join(t, 90, call)

\* lines 85-91
EnterMandatory(t, call) ==
    /\ call.propagation = "MANDATORY"
    /\ IF call.current = None
       THEN Fail(t, World(t), 88, call, None, MandatoryError)
       ELSE Join(t, 90, call)

\* NEVER without the check of the slot: it always opens its session.
EnterNeverOpens(t, call) ==
    /\ call.propagation = "NEVER"
    /\ CanOpen
    /\ StartUnscoped(t, World(t), 100, call)

\* lines 93-103
EnterNever(t, call) ==
    /\ call.propagation = "NEVER"
    /\ IF call.current # None
       THEN Fail(t, World(t), 96, call, None, NeverError)
       ELSE CanOpen /\ StartUnscoped(t, World(t), 100, call)

\* NOT_SUPPORTED without the set(None) of line 108: the outer transaction
\* stays in the slot.
EnterNotSupportedKeepsSlot(t, call) ==
    /\ call.propagation = "NOT_SUPPORTED"
    /\ CanOpen
    /\ IF call.current # None
       THEN StartUnscoped(t, World(t), 112, call)
       ELSE StartUnscoped(t, World(t), 124, call)

\* lines 105-127
EnterNotSupported(t, call) ==
    /\ call.propagation = "NOT_SUPPORTED"
    /\ CanOpen
    /\ IF call.current # None
       THEN StartUnscoped(t, ContextSet(World(t), None), 112, call)
       ELSE StartUnscoped(t, World(t), 124, call)

\* SUPPORTS opening a session of its own whatever the slot holds.
EnterSupportsNew(t, call) ==
    /\ call.propagation = "SUPPORTS"
    /\ CanOpen
    /\ StartUnscoped(t, World(t), 137, call)

\* SUPPORTS publishing the session it opens, as _start_transaction does.
EnterSupportsPublishes(t, call) ==
    /\ call.propagation = "SUPPORTS"
    /\ IF call.current # None
       THEN Join(t, 132, call)
       ELSE CanOpen /\ StartTransaction(t, World(t), 137, call)

\* lines 129-140
EnterSupports(t, call) ==
    /\ call.propagation = "SUPPORTS"
    /\ IF call.current # None
       THEN Join(t, 132, call)
       ELSE CanOpen /\ StartUnscoped(t, World(t), 137, call)

\* REQUIRES_NEW joining the ambient transaction instead of suspending it.
EnterRequiresNewJoins(t, call) ==
    /\ call.propagation = "REQUIRES_NEW"
    /\ IF call.current # None
       THEN Join(t, 175, call)
       ELSE CanOpen /\ StartTransaction(t, World(t), 169, call)

\* lines 142-170
EnterRequiresNew(t, call) ==
    /\ call.propagation = "REQUIRES_NEW"
    /\ CanOpen
    /\ IF call.current # None
       THEN StartTransaction(t, ContextSet(World(t), None), 155, call)
       ELSE StartTransaction(t, World(t), 169, call)

\* REQUIRED joining the session the enclosing call yielded, in the slot or not.
EnterRequiredJoinsYielded(t, call) ==
    /\ call.propagation = "REQUIRED"
    /\ IF call.current # None
       THEN Join(t, 175, call)
       ELSE IF stack[t] # <<>>
       THEN Join(t, 175, [call EXCEPT !.current = Top(t).session])
       ELSE CanOpen /\ StartTransaction(t, World(t), 184, call)

\* lines 172-185
EnterRequired(t, call) ==
    /\ call.propagation = "REQUIRED"
    /\ IF call.current # None
       THEN Join(t, 175, call)
       ELSE CanOpen /\ StartTransaction(t, World(t), 184, call)

\* An unknown propagation treated as the default, REQUIRED.
EnterUnknownDefaults(t, call) ==
    /\ call.propagation \notin {"MANDATORY", "NEVER", "NOT_SUPPORTED", "SUPPORTS",
                                "REQUIRES_NEW", "REQUIRED"}
    /\ IF call.current # None
       THEN Join(t, 175, call)
       ELSE CanOpen /\ StartTransaction(t, World(t), 184, call)

\* line 187
EnterUnknown(t, call) ==
    /\ call.propagation \notin {"MANDATORY", "NEVER", "NOT_SUPPORTED", "SUPPORTS",
                                "REQUIRES_NEW", "REQUIRED"}
    /\ Fail(t, World(t), 187, call, None, UnknownError)

\* `with manager.transaction(...)`: the context manager's __enter__.
Transaction(t, call) ==
    /\ CanCall(t)
    /\ \/ EnterMandatory(t, call)
       \/ EnterNever(t, call)
       \/ EnterNotSupported(t, call)
       \/ EnterSupports(t, call)
       \/ EnterRequiresNew(t, call)
       \/ EnterRequired(t, call)
       \/ EnterUnknown(t, call)

----------------------------------------------------------------------------
\* After the yield: the context manager's __exit__, with the exception the
\* unit of work ended with thrown in at the yield (NoExc: it returned).

\* The carve-out read as a second requirement.
ShouldRollbackBoth(e, rollback_for, no_rollback_for) ==
    IsInstance(e, rollback_for) /\ IsInstance(e, no_rollback_for)

\* The carve-out forgotten.
ShouldRollbackNoCarveOut(e, rollback_for, no_rollback_for) ==
    IsInstance(e, rollback_for)

\* lines 210-212
ShouldRollback(e, rollback_for, no_rollback_for) ==
    IsInstance(e, rollback_for) /\ ~IsInstance(e, no_rollback_for)

\* The flag read the wrong way round: read-only transactions commit.
CommitAttemptedReadOnly(f, e) == e = NoExc /\ f.read_only

\* The commit placed where it runs on every exit path.
CommitAttemptedAlways(f, e) == ~f.read_only

\* lines 206-208: the commit is attempted on a normal return of a transaction
\* that is not read-only.
CommitAttempted(f, e) == e = NoExc /\ ~f.read_only

\* The `raise` of line 222 placed in the rollback branch only: a failure that
\* is not rolled back is swallowed.
OutcomeSwallows(f, e, commits) ==
    IF CommitAttempted(f, e) /\ ~commits THEN CommitError
    ELSE IF e # NoExc /\ ~ShouldRollback(e, f.rollback_for, f.no_rollback_for)
    THEN NoExc
    ELSE e

\* The exception that leaves _start_transaction: the one thrown in (re-raised
\* by line 222) or the one session.commit() raised.
Outcome(f, e, commits) ==
    IF CommitAttempted(f, e) /\ ~commits THEN CommitError ELSE e

\* Without the finally: the session is closed and the slot reset only when no
\* exception is propagating.
FinishTransactionNoFinally(w, f, e, commits) ==
    LET s  == f.session
        w1 == IF CommitAttempted(f, e)
              THEN IF commits THEN SessionCommit(w, s) ELSE SessionCommitFails(w, s)
              ELSE w
        e1 == Outcome(f, e, commits)
        w2 == IF e1 # NoExc /\ ShouldRollback(e1, f.rollback_for, f.no_rollback_for)
              THEN SessionRollback(w1, s)
              ELSE w1
    IN IF e1 = NoExc
       THEN SessionClose(Logged(ContextReset(w2, f.token), "reset", s), s)
       ELSE w2

\* A read-only transaction ended by a rollback in place of the skipped commit.
FinishTransactionRollsBackReadOnly(w, f, e, commits) ==
    LET s  == f.session
        w1 == IF CommitAttempted(f, e)
              THEN IF commits THEN SessionCommit(w, s) ELSE SessionCommitFails(w, s)
              ELSE w
        e1 == Outcome(f, e, commits)
        w2 == IF \/ e1 # NoExc /\ ShouldRollback(e1, f.rollback_for, f.no_rollback_for)
                 \/ e1 = NoExc /\ f.read_only
              THEN SessionRollback(w1, s)
              ELSE w1
        w3 == Logged(ContextReset(w2, f.token), "reset", s)
    IN SessionClose(w3, s)

\* The commit placed after the try/except: only a failure of the unit of work
\* is classified, a failure of the commit never rolls back.
FinishTransactionCommitUnclassified(w, f, e, commits) ==
    LET s  == f.session
        w1 == IF CommitAttempted(f, e)
              THEN IF commits THEN SessionCommit(w, s) ELSE SessionCommitFails(w, s)
              ELSE w
        w2 == IF e # NoExc /\ ShouldRollback(e, f.rollback_for, f.no_rollback_for)
              THEN SessionRollback(w1, s)
              ELSE w1
        w3 == Logged(ContextReset(w2, f.token), "reset", s)
    IN SessionClose(w3, s)

\* lines 206-226 of _start_transaction, for frame f.
FinishTransaction(w, f, e, commits) ==
    LET s  == f.session
        w1 == IF CommitAttempted(f, e)
              THEN IF commits THEN SessionCommit(w, s) ELSE SessionCommitFails(w, s)
              ELSE w
        e1 == Outcome(f, e, commits)
        w2 == IF e1 # NoExc /\ ShouldRollback(e1, f.rollback_for, f.no_rollback_for)
              THEN SessionRollback(w1, s)
              ELSE w1
        w3 == Logged(ContextReset(w2, f.token), "reset", s)
    IN SessionClose(w3, s)

\* The token of the suspended transaction is never reset.
ResumeNothing(w, f) == w

\* Resuming by the pattern of lines 225-226: the slot is reset and the session
\* that returns to it is closed.
ResumeClosesOuter(w, f) ==
    IF f.pc \in SuspendedYields
    THEN SessionClose(ContextReset(w, f.parent_token), f.parent_token)
    ELSE w

\* lines 156-158 and 115-117: resume the transaction suspended at entry.
Resume(w, f) ==
    IF f.pc \in SuspendedYields THEN ContextReset(w, f.parent_token) ELSE w

\* A joining call that closes the session it was handed.
ExitJoinCloses(t) ==
    /\ stack[t] # <<>>
    /\ Top(t).pc \in JoinYields
    /\ Install(t, SessionClose(World(t), Top(t).session))
    /\ Pop(t)
    /\ last' = [last EXCEPT ![t] = Ended(Top(t), raised[t], raised[t])]
    /\ UNCHANGED raised

\* A joining call whose unit of work failed rolls the shared session back.
ExitJoinRollsBack(t) ==
    /\ stack[t] # <<>>
    /\ Top(t).pc \in JoinYields
    /\ Install(t, IF raised[t] # NoExc
                  THEN SessionRollback(World(t), Top(t).session) ELSE World(t))
    /\ Pop(t)
    /\ last' = [last EXCEPT ![t] = Ended(Top(t), raised[t], raised[t])]
    /\ UNCHANGED raised

\* lines 91, 133, 176: nothing follows the yield of a joining call.
ExitJoin(t) ==
    /\ stack[t] # <<>>
    /\ Top(t).pc \in JoinYields
    /\ Pop(t)
    /\ last' = [last EXCEPT ![t] = Ended(Top(t), raised[t], raised[t])]
    /\ UNCHANGED <<slot, raised, sessions, db, log>>

\* Without the finally: the unscoped session is closed only when the unit of
\* work returns.
ExitUnscopedNoFinally(t) ==
    /\ stack[t] # <<>>
    /\ Top(t).pc \in UnscopedYields
    /\ LET f == Top(t) IN
       /\ Install(t, Resume(IF raised[t] = NoExc
                            THEN SessionClose(World(t), f.session)
                            ELSE World(t), f))
       /\ last' = [last EXCEPT ![t] = Ended(f, raised[t], raised[t])]
    /\ Pop(t)
    /\ UNCHANGED raised

\* An unscoped session committed before it is closed when the unit of work
\* returns.
ExitUnscopedCommits(t) ==
    /\ stack[t] # <<>>
    /\ Top(t).pc \in UnscopedYields
    /\ LET f == Top(t) IN
       /\ Install(t, Resume(SessionClose(IF raised[t] = NoExc
                                         THEN SessionCommit(World(t), f.session)
                                         ELSE World(t), f.session), f))
       /\ last' = [last EXCEPT ![t] = Ended(f, raised[t], raised[t])]
    /\ Pop(t)
    /\ UNCHANGED raised

\* lines 101-103, 113-117, 125-127, 138-140
ExitUnscoped(t) ==
    /\ stack[t] # <<>>
    /\ Top(t).pc \in UnscopedYields
    /\ LET f == Top(t) IN
       /\ Install(t, Resume(SessionClose(World(t), f.session), f))
       /\ last' = [last EXCEPT ![t] = Ended(f, raised[t], raised[t])]
    /\ Pop(t)
    /\ UNCHANGED raised

\* lines 206-226, then 156-158
ExitScoped(t, commits) ==
    /\ stack[t] # <<>>
    /\ Top(t).pc \in ScopedYields
    /\ LET f == Top(t)
           e == raised[t]
       IN
       /\ Install(t, Resume(FinishTransaction(World(t), f, e, commits), f))
       /\ raised' = [raised EXCEPT ![t] = Outcome(f, e, commits)]
       /\ last' = [last EXCEPT ![t] = Ended(f, e, Outcome(f, e, commits))]
    /\ Pop(t)

----------------------------------------------------------------------------
\* The unit of work: the body of the caller's `with` block.

\* session.add(...) on the session the call yielded.
Write(t) ==
    /\ stack[t] # <<>>
    /\ raised[t] = NoExc
    /\ sessions[Top(t).session].writes < MaxWrites
    /\ Install(t, SessionAdd(World(t), Top(t).session))
    /\ Forget(t)
    /\ UNCHANGED <<stack, raised>>

\* The unit of work raises.
Raise(t, e) ==
    /\ stack[t] # <<>>
    /\ raised[t] = NoExc
    /\ raised' = [raised EXCEPT ![t] = e]
    /\ Forget(t)
    /\ UNCHANGED <<slot, stack, sessions, db, log>>

\* The caller catches the exception of the call it made (try/except around the
\* `with` block).
Catch(t) ==
    /\ raised[t] # NoExc
    /\ raised' = [raised EXCEPT ![t] = NoExc]
    /\ Forget(t)
    /\ UNCHANGED <<slot, stack, sessions, db, log>>

----------------------------------------------------------------------------
Init ==
    /\ slot = [t \in Tasks |-> None]
    /\ stack = [t \in Tasks |-> <<>>]
    /\ raised = [t \in Tasks |-> NoExc]
    /\ sessions = <<>>
    /\ db = {}
    /\ log = <<>>
    /\ last = [t \in Tasks |-> NoCall]
    /\ started = {MainTask}

\* Task t runs, and the step starts no task.
Running(t) == t \in started /\ UNCHANGED started

\* A running task makes a call of the manager, or its unit of work takes a
\* step.
Next ==
    \E t \in Tasks :
        \/ \E d \in Descriptors :
                /\ Running(t)
                /\ Transaction(t, Call(d.propagation, slot[t], d.read_only,
                                       d.isolation_level, d.rollback_for,
                                       d.no_rollback_for))
        \/ Running(t) /\ ExitJoin(t)
        \/ Running(t) /\ ExitUnscoped(t)
        \/ \E commits \in BOOLEAN : Running(t) /\ ExitScoped(t, commits)
        \/ Running(t) /\ Write(t)
        \/ \E e \in UowFailures : Running(t) /\ Raise(t, e)
        \/ Running(t) /\ Catch(t)

Spec == Init /\ [][Next]_vars

----------------------------------------------------------------------------
\* Several tasks.  The slot is a contextvars.ContextVar: each task reads and
\* sets it in its own context.  A new thread starts with an empty context, so
\* that the variable has its default there; an asyncio task starts with a copy
\* of the context of the task that creates it, the value of the variable
\* included.

\* Task t starts task u, which gets a copy of t's context or an empty one.
Spawn(t, u, inherit) ==
    /\ t \in started
    /\ u \notin started
    /\ raised[t] = NoExc
    /\ started' = started \cup {u}
    /\ slot' = [slot EXCEPT ![u] = IF inherit THEN slot[t] ELSE None]
    /\ Forget(t)
    /\ UNCHANGED <<stack, raised, sessions, db, log>>

\* get_session(manager): the RuntimeError of line 232.
NoTransactionError == [cls |-> "RuntimeError", msg |-> "No active transaction"]

\* What get_session was called with: it is no call of transaction() and has no
\* propagation; the slot is what line 230 reads.
GetSessionCall(t) == Call("NONE", GetCurrentSession(t), FALSE, "None", {}, {})

\* get_session opening a session of its own when the slot is empty.
GetSessionOpens(t) ==
    /\ raised[t] = NoExc
    /\ LET session == GetCurrentSession(t)
           s == Len(sessions) + 1
       IN
       IF session = None
       THEN /\ CanOpen
            /\ Install(t, CreateSession(World(t)))
            /\ last' = [last EXCEPT ![t] =
                            Ended(Frame(233, GetSessionCall(t), s, None, None),
                                  NoExc, NoExc)]
            /\ UNCHANGED <<stack, raised>>
       ELSE /\ last' = [last EXCEPT ![t] =
                            Ended(Frame(233, GetSessionCall(t), session, None, None),
                                  NoExc, NoExc)]
            /\ UNCHANGED <<slot, stack, raised, sessions, db, log>>

\* get_session(manager), lines 229-233, called by task t: the frame of the
\* ended call holds the session returned (line 233) or none (line 232).
GetSession(t) ==
    /\ raised[t] = NoExc
    /\ LET session == GetCurrentSession(t)
       IN
       IF session = None
       THEN Fail(t, World(t), 232, GetSessionCall(t), None, NoTransactionError)
       ELSE /\ last' = [last EXCEPT ![t] =
                            Ended(Frame(233, GetSessionCall(t), session, None, None),
                                  NoExc, NoExc)]
            /\ UNCHANGED <<slot, stack, raised, sessions, db, log>>

\* The calls the tasks make when several run: every propagation, with the
\* defaults of lines 73-77.
TaskDescriptors ==
    {Descriptor(p, FALSE, "None", DefaultPolicy) : p \in Propagations}

\* What a unit of work raises when several tasks run.
TaskFailures == {[cls |-> "ValueError", msg |-> "unit of work"]}

\* A running task makes a call of the manager, its unit of work fails or asks
\* for the current session, the failure is caught, or the task starts a task.  Units of work write no rows
\* here: what the slots hold does not depend on them.
NextTasks ==
    \E t \in Tasks :
        \/ \E d \in TaskDescriptors :
                /\ Running(t)
                /\ Len(stack[t]) < MaxTaskDepth
                /\ Transaction(t, Call(d.propagation, slot[t], d.read_only,
                                       d.isolation_level, d.rollback_for,
                                       d.no_rollback_for))
        \/ Running(t) /\ ExitJoin(t)
        \/ Running(t) /\ ExitUnscoped(t)
        \/ \E commits \in BOOLEAN : Running(t) /\ ExitScoped(t, commits)
        \/ \E e \in TaskFailures : Running(t) /\ Raise(t, e)
        \/ Running(t) /\ Catch(t)
        \/ \E u \in Tasks, inherit \in BOOLEAN : Spawn(t, u, inherit)
        \/ Running(t) /\ GetSession(t)

SpecTasks == Init /\ [][NextTasks]_vars

----------------------------------------------------------------------------
\* Vocabulary of the properties.

\* The calls the manager has made on session s, in order.
OpsOn(s) ==
    LET own == SelectSeq(log, LAMBDA e : e[2] = s)
    IN [i \in 1..Len(own) |-> own[i][1]]

\* How often op was called on session s.
Count(op, s) == Len(SelectSeq(log, LAMBDA e : e = <<op, s>>))

\* The rows written through session s so far.
Rows(s) == {<<s, k>> : k \in 1..sessions[s].writes}

\* The (one or two) calls that open a scoped session, up to its publication.
Opening == {<<"create", "set">>, <<"create", "isolation", "set">>}

\* The scoped calls of a session whose transaction committed and ended.
CommittedLogs == {o \o <<"commit", "reset", "close">> : o \in Opening}

\* The scoped calls of a session whose transaction was rolled back and ended
\* without any commit.
RolledBackLogs == {o \o <<"rollback", "reset", "close">> : o \in Opening}

\* The scoped calls of a session whose transaction ended with neither a commit
\* nor a rollback.
AbandonedLogs == {o \o <<"reset", "close">> : o \in Opening}

\* The position in the log of the first call op on session s; 0 if none.
Index(op, s) ==
    IF Count(op, s) = 0 THEN 0
    ELSE CHOOSE i \in 1..Len(log) :
            /\ log[i] = <<op, s>>
            /\ \A j \in 1..(i - 1) : log[j] # <<op, s>>

\* The failure e matches the tuple of classes.
Matches(e, classes) == Ancestors(e.cls) \cap classes # {}

\* The failure e is rollback-eligible under the descriptor of frame f.
Eligible(e, f) == Matches(e, f.rollback_for) /\ ~Matches(e, f.no_rollback_for)

\* No row written through session s is in the database or pending anywhere.
Absent(s) ==
    /\ Rows(s) \cap db = {}
    /\ \A s2 \in DOMAIN sessions : Rows(s) \cap Visible(s2) = {}

----------------------------------------------------------------------------
\* C1: a REQUIRED call made with an empty slot and read_only = false whose
\* unit of work returns opens exactly one session, has it in the slot while
\* the unit of work runs, calls commit on it exactly once and then closes it,
\* and the slot is empty after the call; when the call succeeds the rows
\* written are in the database, visible through every session open afterwards.
C1_RequiredCommits ==
    \A t \in Tasks :
        /\ \A i \in 1..Len(stack[t]) :
             LET f == stack[t][i] IN
             f.pc = 184 =>
                /\ f.propagation = "REQUIRED"
                /\ f.current = None
                /\ sessions[f.session].state = "open"
                /\ OpsOn(f.session) \in Opening
                /\ (i = Len(stack[t]) => GetCurrentSession(t) = f.session)
        /\ LET c == last[t]
               s == c.frame.session
           IN
           (c.frame.pc = 184 /\ ~c.frame.read_only /\ c.exc = NoExc) =>
                /\ GetCurrentSession(t) = None
                /\ Count("create", s) = 1
                /\ Count("commit", s) + Count("commit_failed", s) = 1
                /\ Count("close", s) = 1
                /\ sessions[s].state = "closed"
                /\ \A op \in {"commit", "commit_failed"} :
                      Count(op, s) = 1 => Index(op, s) < Index("close", s)
                /\ c.out = NoExc =>
                      /\ OpsOn(s) \in CommittedLogs
                      /\ Rows(s) \subseteq db
        /\ \A s \in DOMAIN sessions :
             OpsOn(s) \in CommittedLogs =>
                \A s2 \in DOMAIN sessions :
                    sessions[s2].state = "open" => Rows(s) \subseteq Visible(s2)

\* A REQUIRED call with an empty slot has just returned normally after its
\* unit of work wrote a row.
C1_Witness ==
    \E t \in Tasks :
        /\ last[t].frame.pc = 184
        /\ ~last[t].frame.read_only
        /\ last[t].out = NoExc
        /\ sessions[last[t].frame.session].writes > 0
        /\ Rows(last[t].frame.session) \subseteq db
        /\ stack[t] = <<>>

----------------------------------------------------------------------------
\* C2: when the unit of work of a scoped transaction raises a failure that
\* matches rollback_for and not no_rollback_for, the session is rolled back,
\* never committed, then closed, and no row written through it is in the
\* database or seen by any transaction from then on.
C2_EligibleFailureRollsBack ==
    /\ \A t \in Tasks :
         LET c == last[t]
             s == c.frame.session
         IN
         (c.frame.pc \in ScopedYields /\ c.exc # NoExc /\ Eligible(c.exc, c.frame)) =>
              /\ OpsOn(s) \in RolledBackLogs
              /\ sessions[s].state = "closed"
              /\ Absent(s)
    /\ \A s \in DOMAIN sessions : OpsOn(s) \in RolledBackLogs => Absent(s)

\* A scoped transaction whose unit of work wrote a row has just ended with a
\* ValueError under the default rollback_for.
C2_Witness ==
    \E t \in Tasks :
        /\ last[t].frame.pc \in ScopedYields
        /\ last[t].frame.rollback_for = {"Exception"}
        /\ last[t].frame.no_rollback_for = {}
        /\ last[t].exc.cls = "ValueError"
        /\ sessions[last[t].frame.session].writes > 0
        /\ Count("rollback", last[t].frame.session) = 1

----------------------------------------------------------------------------
\* The session frame f's caller sees in the slot while f's unit of work runs.
SlotInBody(f) == IF f.pc \in JoinYields \cup ScopedYields THEN f.session ELSE None

\* Session s is held by a generator that opened it.
Owned(s) ==
    \E t \in Tasks : \E i \in 1..Len(stack[t]) :
        stack[t][i].pc \notin JoinYields /\ stack[t][i].session = s

\* Some generator on a stack holds session s.
Held(s) ==
    \E t \in Tasks : \E i \in 1..Len(stack[t]) : stack[t][i].session = s

LifecycleOps == {"commit", "commit_failed", "rollback", "close"}

\* C3: on every exit path of a scoped transaction the session is closed
\* exactly once and the slot holds the value it held before the call; the
\* reset of the slot and the close come after any commit or rollback.
C3_CloseAndRestoreLast ==
    /\ \A t \in Tasks :
         LET c == last[t]
             s == c.frame.session
         IN
         c.frame.pc \in ScopedYields =>
              /\ Count("close", s) = 1
              /\ Count("reset", s) = 1
              /\ sessions[s].state = "closed"
              /\ GetCurrentSession(t) = c.frame.current
              /\ \A op \in {"commit", "commit_failed", "rollback"} :
                    Count(op, s) > 0 =>
                        /\ Index(op, s) < Index("reset", s)
                        /\ Index(op, s) < Index("close", s)
    /\ \A s \in DOMAIN sessions :
         /\ Count("close", s) <= 1
         /\ (Count("set", s) = 1 /\ ~Owned(s)) =>
                Count("close", s) = 1 /\ Count("reset", s) = 1

\* A REQUIRES_NEW transaction under an ambient one has just ended by a failed
\* commit.
C3_Witness ==
    \E t \in Tasks :
        /\ last[t].frame.pc = 155
        /\ last[t].exc = NoExc
        /\ last[t].out = CommitError
        /\ GetCurrentSession(t) = last[t].frame.current
        /\ last[t].frame.current # None

----------------------------------------------------------------------------
\* C4: whatever the mode, the slot and the outcome, the slot holds after a call
\* the value it held before; a nested call finds the slot as its caller's unit
\* of work sees it, and the slot is empty outside every call.
C4_SlotRestored ==
    \A t \in Tasks :
        /\ last[t] # NoCall => GetCurrentSession(t) = last[t].frame.current
        /\ stack[t] = <<>> => GetCurrentSession(t) = None
        /\ stack[t] # <<>> => GetCurrentSession(t) = SlotInBody(Top(t))
        /\ \A i \in 1..Len(stack[t]) :
             stack[t][i].current = IF i = 1 THEN None ELSE SlotInBody(stack[t][i - 1])

\* A REQUIRES_NEW call under an ambient transaction has just failed while the
\* isolation level was applied.
C4_Witness ==
    \E t \in Tasks :
        /\ last[t].frame.pc = 200
        /\ last[t].frame.propagation = "REQUIRES_NEW"
        /\ last[t].frame.current # None
        /\ last[t].out = IsolationError
        /\ GetCurrentSession(t) = last[t].frame.current

----------------------------------------------------------------------------
\* C5: with a transaction ambient, a REQUIRED, SUPPORTS or MANDATORY call
\* yields the session of the slot, opens no session, and the slot holds that
\* session during its unit of work and in the calls nested in it.
C5_JoinYieldsAmbient ==
    /\ \A t \in Tasks :
         /\ \A i \in 1..Len(stack[t]) :
              LET f == stack[t][i] IN
              (f.propagation \in {"REQUIRED", "SUPPORTS", "MANDATORY"}
                  /\ f.current # None) =>
                    /\ f.pc \in JoinYields
                    /\ f.session = f.current
                    /\ (i = Len(stack[t]) => GetCurrentSession(t) = f.session)
                    /\ (i < Len(stack[t]) => stack[t][i + 1].current = f.session)
         /\ (last[t].frame.propagation \in {"REQUIRED", "SUPPORTS", "MANDATORY"}
                /\ last[t].frame.current # None) =>
                    /\ last[t].frame.pc \in JoinYields
                    /\ last[t].frame.session = last[t].frame.current
                    /\ GetCurrentSession(t) = last[t].frame.session
    /\ \A s \in DOMAIN sessions :
         sessions[s].state = "open" => Owned(s) \/ Count("isolation_failed", s) = 1

\* A REQUIRED call nested in a SUPPORTS call nested in a transaction.
C5_Witness ==
    \E t \in Tasks :
        /\ Len(stack[t]) = 3
        /\ stack[t][1].pc \in ScopedYields
        /\ stack[t][2].propagation = "SUPPORTS"
        /\ stack[t][3].propagation = "REQUIRED"
        /\ stack[t][3].session = stack[t][1].session
        /\ GetCurrentSession(t) = stack[t][1].session
        /\ Len(sessions) = 1

----------------------------------------------------------------------------
\* C6: a joining call issues no commit, rollback or close on the session,
\* however its unit of work ends; these are issued only by the call that
\* opened the session, once no joining call holds it any more.
C6_JoinLeavesSession ==
    /\ \A t \in Tasks :
         /\ \A i \in 1..Len(stack[t]) :
              LET f == stack[t][i] IN
              f.pc \in JoinYields =>
                    /\ sessions[f.session].state = "open"
                    /\ OpsOn(f.session) \in Opening
                    /\ \E j \in 1..(i - 1) :
                          /\ stack[t][j].pc \in ScopedYields
                          /\ stack[t][j].session = f.session
         /\ last[t].frame.pc \in JoinYields =>
                    /\ sessions[last[t].frame.session].state = "open"
                    /\ OpsOn(last[t].frame.session) \in Opening
                    /\ Owned(last[t].frame.session)
    /\ \A s \in DOMAIN sessions :
         (\E op \in LifecycleOps : Count(op, s) > 0) => ~Held(s)

\* A joining call has just ended with the failure its unit of work raised.
C6_Witness ==
    \E t \in Tasks :
        /\ last[t].frame.pc \in JoinYields
        /\ last[t].exc \in UowFailures
        /\ raised[t] = last[t].exc
        /\ sessions[last[t].frame.session].state = "open"

----------------------------------------------------------------------------
\* C7: a REQUIRES_NEW call under an ambient transaction opens a session other
\* than the outer one and has it in the slot during its unit of work; when the
\* call has ended, normally or not, the slot holds the outer session again.
C7_RequiresNewDistinct ==
    \A t \in Tasks :
        /\ \A i \in 1..Len(stack[t]) :
             LET f == stack[t][i] IN
             (f.propagation = "REQUIRES_NEW" /\ f.current # None) =>
                   /\ f.pc = 155
                   /\ f.session # f.current
                   /\ sessions[f.session].state = "open"
                   /\ sessions[f.current].state = "open"
                   /\ (i = Len(stack[t]) => GetCurrentSession(t) = f.session)
        /\ LET c == last[t] IN
           (c.frame.propagation = "REQUIRES_NEW" /\ c.frame.current # None) =>
                   /\ GetCurrentSession(t) = c.frame.current
                   /\ sessions[c.frame.current].state = "open"
                   /\ c.frame.session # c.frame.current
                   /\ c.frame.pc \in {155, 197, 200}

\* A REQUIRES_NEW call under an ambient transaction has just ended with a
\* failure of its unit of work.
C7_Witness ==
    \E t \in Tasks :
        /\ last[t].frame.pc = 155
        /\ last[t].exc \in UowFailures
        /\ GetCurrentSession(t) = last[t].frame.current
        /\ sessions[last[t].frame.session].state = "closed"

----------------------------------------------------------------------------
\* Session s2 was opened and ended while session s was the suspended
\* transaction of a scoped call: s2 is nested in s.
NestedIn(s2, s) ==
    /\ Count("set", s) = 1
    /\ Count("close", s2) = 1
    /\ Index("set", s) < Index("create", s2)
    /\ Count("reset", s) = 1 => Index("close", s2) < Index("reset", s)

\* C8: when a scoped transaction writes A, a REQUIRES_NEW call in it writes B
\* and commits, and the outer unit of work then raises an eligible failure, the
\* inner commit comes before the outer rollback, B is in the database and A is
\* not.
C8_InnerSurvivesOuterRollback ==
    \A t \in Tasks :
        LET c == last[t]
            s == c.frame.session
        IN
        (c.frame.pc \in ScopedYields /\ c.exc # NoExc /\ Eligible(c.exc, c.frame)) =>
            \A s2 \in DOMAIN sessions :
                (NestedIn(s2, s) /\ OpsOn(s2) \in CommittedLogs) =>
                    /\ Count("rollback", s) = 1
                    /\ Index("commit", s2) < Index("rollback", s)
                    /\ Rows(s2) \subseteq db
                    /\ Rows(s) \cap db = {}

\* The outer transaction wrote a row, the REQUIRES_NEW transaction in it wrote
\* a row and committed, and the outer one has just ended with a RuntimeError
\* or ValueError it rolls back for.
C8_Witness ==
    \E t \in Tasks :
        LET c == last[t] IN
        /\ c.frame.pc = 184
        /\ c.exc \in UowFailures
        /\ Eligible(c.exc, c.frame)
        /\ \E s2 \in DOMAIN sessions :
              /\ NestedIn(s2, c.frame.session)
              /\ OpsOn(s2) \in CommittedLogs
              /\ sessions[s2].writes > 0
              /\ Rows(s2) \subseteq db
        /\ sessions[c.frame.session].writes > 0
        /\ Rows(c.frame.session) \cap db = {}

----------------------------------------------------------------------------
\* C9: for the failure a scoped transaction ends with, a rollback is issued
\* iff the failure matches rollback_for and does not match no_rollback_for.
C9_RollbackIffEligible ==
    \A t \in Tasks :
        LET c == last[t]
            s == c.frame.session
        IN
        (c.frame.pc \in ScopedYields /\ c.out # NoExc) =>
            /\ Count("rollback", s) <= 1
            /\ Count("rollback", s) = 1 <=>
                  (Matches(c.out, c.frame.rollback_for)
                      /\ ~Matches(c.out, c.frame.no_rollback_for))
            /\ (Matches(c.out, c.frame.rollback_for)
                  /\ Matches(c.out, c.frame.no_rollback_for)) =>
                      Count("rollback", s) = 0
            /\ (~Matches(c.out, c.frame.rollback_for)
                  /\ ~Matches(c.out, c.frame.no_rollback_for)) =>
                      Count("rollback", s) = 0

\* A scoped transaction has just ended with a failure that matches both
\* rollback_for and no_rollback_for.
C9_Witness ==
    \E t \in Tasks :
        /\ last[t].frame.pc \in ScopedYields
        /\ last[t].exc \in UowFailures
        /\ Matches(last[t].exc, last[t].frame.rollback_for)
        /\ Matches(last[t].exc, last[t].frame.no_rollback_for)
        /\ Count("rollback", last[t].frame.session) = 0

----------------------------------------------------------------------------
\* C10: when the unit of work of a scoped transaction raises a failure that
\* matches no_rollback_for, neither a rollback nor a commit is issued, the
\* session is closed, the failure reaches the caller, and the rows written are
\* not in the database or seen by any transaction from then on.
C10_NoRollbackForLeavesUncommitted ==
    /\ \A t \in Tasks :
         LET c == last[t]
             s == c.frame.session
         IN
         (c.frame.pc \in ScopedYields /\ c.exc # NoExc
             /\ Matches(c.exc, c.frame.no_rollback_for)) =>
                /\ OpsOn(s) \in AbandonedLogs
                /\ sessions[s].state = "closed"
                /\ c.out = c.exc
                /\ raised[t] = c.exc
                /\ Absent(s)
    /\ \A s \in DOMAIN sessions : OpsOn(s) \in AbandonedLogs => Absent(s)

\* A scoped transaction whose unit of work wrote a row has just ended with a
\* ValueError under no_rollback_for = (ValueError,).
C10_Witness ==
    \E t \in Tasks :
        /\ last[t].frame.pc \in ScopedYields
        /\ last[t].frame.no_rollback_for = {"ValueError"}
        /\ last[t].exc.cls = "ValueError"
        /\ raised[t] = last[t].exc
        /\ sessions[last[t].frame.session].writes > 0
        /\ OpsOn(last[t].frame.session) \in AbandonedLogs

----------------------------------------------------------------------------
\* The call of task t that ends in this step.
Ends(t) == last'[t] # NoCall /\ last'[t] # last[t]

\* The step leaves the sessions, the database, the log, the slots and the
\* generators as they are.
NothingDone == UNCHANGED <<slot, stack, sessions, db, log>>

\* C11: a MANDATORY call made with an empty slot fails with the RuntimeError
\* "MANDATORY propagation requires active transaction" before any unit of work
\* runs: no generator is left suspended for it, it opens no session and calls
\* nothing on any session, and the slot is empty afterwards.
C11_MandatoryFailsOnEmptySlot ==
    /\ [](\A t \in Tasks :
            /\ \A i \in 1..Len(stack[t]) :
                  stack[t][i].propagation = "MANDATORY" => stack[t][i].current # None
            /\ (last[t].frame.propagation = "MANDATORY"
                    /\ last[t].frame.current = None) =>
                  /\ last[t].frame.pc = 88
                  /\ last[t].frame.session = None
                  /\ last[t].exc = NoExc
                  /\ last[t].out = MandatoryError
                  /\ raised[t] = MandatoryError
                  /\ GetCurrentSession(t) = None)
    /\ [][\A t \in Tasks :
            (Ends(t) /\ last'[t].frame.propagation = "MANDATORY"
                     /\ last'[t].frame.current = None) =>
                /\ NothingDone
                /\ slot[t] = None
                /\ raised[t] = NoExc]_vars

\* A MANDATORY call made inside a NOT_SUPPORTED call, where the slot is empty,
\* has just failed.
C11_Witness ==
    \E t \in Tasks :
        /\ last[t].frame.pc = 88
        /\ last[t].out = MandatoryError
        /\ GetCurrentSession(t) = None
        /\ Len(stack[t]) = 2
        /\ stack[t][2].pc = 112

----------------------------------------------------------------------------
\* C12: a NEVER call made while a transaction is ambient fails with the
\* RuntimeError "NEVER propagation forbids active transaction" before any unit
\* of work runs: it opens no session, calls nothing on the ambient session,
\* which stays open, and the slot holds the same session afterwards.
C12_NeverFailsOnAmbient ==
    /\ [](\A t \in Tasks :
            /\ \A i \in 1..Len(stack[t]) :
                  stack[t][i].propagation = "NEVER" => stack[t][i].current = None
            /\ (last[t].frame.propagation = "NEVER"
                    /\ last[t].frame.current # None) =>
                  /\ last[t].frame.pc = 96
                  /\ last[t].frame.session = None
                  /\ last[t].exc = NoExc
                  /\ last[t].out = NeverError
                  /\ raised[t] = NeverError
                  /\ GetCurrentSession(t) = last[t].frame.current
                  /\ sessions[last[t].frame.current].state = "open"
                  /\ OpsOn(last[t].frame.current) \in Opening)
    /\ [][\A t \in Tasks :
            (Ends(t) /\ last'[t].frame.propagation = "NEVER"
                     /\ last'[t].frame.current # None) =>
                /\ NothingDone
                /\ slot[t] = last'[t].frame.current
                /\ raised[t] = NoExc]_vars

\* A NEVER call made inside a joining call of a transaction has just failed.
C12_Witness ==
    \E t \in Tasks :
        /\ last[t].frame.pc = 96
        /\ last[t].out = NeverError
        /\ Len(stack[t]) = 2
        /\ stack[t][2].pc \in JoinYields
        /\ GetCurrentSession(t) = stack[t][1].session
        /\ sessions[stack[t][1].session].writes > 0

----------------------------------------------------------------------------
\* The calls made on an unscoped session while its unit of work runs, and once
\* its call has ended.
UnscopedOpen == <<"create">>
UnscopedEnded == <<"create", "close">>

\* C13: a NOT_SUPPORTED call made while a transaction is ambient runs its unit
\* of work with the slot empty, on a session it has just opened, which is
\* closed at exit with no commit and no rollback; afterwards the slot holds the
\* suspended session again, also when the unit of work fails.
C13_NotSupportedSuspends ==
    \A t \in Tasks :
        /\ \A i \in 1..Len(stack[t]) :
             LET f == stack[t][i] IN
             (f.propagation = "NOT_SUPPORTED" /\ f.current # None) =>
                   /\ f.pc = 112
                   /\ f.session # f.current
                   /\ sessions[f.session].state = "open"
                   /\ OpsOn(f.session) = UnscopedOpen
                   /\ (i = Len(stack[t]) => GetCurrentSession(t) = None)
                   /\ (i < Len(stack[t]) => stack[t][i + 1].current = None)
        /\ LET c == last[t]
               s == c.frame.session
           IN
           (c.frame.propagation = "NOT_SUPPORTED" /\ c.frame.current # None) =>
                   /\ c.frame.pc \in {110, 112}
                   /\ GetCurrentSession(t) = c.frame.current
                   /\ sessions[c.frame.current].state = "open"
                   /\ c.frame.pc = 112 =>
                         /\ OpsOn(s) = UnscopedEnded
                         /\ sessions[s].state = "closed"
                         /\ s # c.frame.current
                         /\ c.out = c.exc
                         /\ raised[t] = c.exc

\* A NOT_SUPPORTED call under a transaction has just ended with the failure of
\* its unit of work, which had written a row.
C13_Witness ==
    \E t \in Tasks :
        /\ last[t].frame.pc = 112
        /\ last[t].exc \in UowFailures
        /\ sessions[last[t].frame.session].writes > 0
        /\ GetCurrentSession(t) = last[t].frame.current
        /\ Len(stack[t]) = 1
        /\ stack[t][1].session = last[t].frame.current

----------------------------------------------------------------------------
\* C14: while a transaction is suspended by a REQUIRES_NEW or NOT_SUPPORTED
\* call, no commit, rollback or close is issued on its session and the slot
\* never holds it, whatever the inner unit of work does; after the inner call,
\* however it ended, the session is open with its writes pending and in the
\* slot, and a commit by its owner brings them to the database.
C14_SuspendedUntouched ==
    /\ \A t \in Tasks :
         /\ \A i \in 1..Len(stack[t]) :
              LET f == stack[t][i] IN
              f.pc \in SuspendedYields =>
                    /\ sessions[f.current].state = "open"
                    /\ OpsOn(f.current) \in Opening
                    /\ sessions[f.current].pending = Rows(f.current)
                    /\ GetCurrentSession(t) # f.current
                    /\ \A j \in i..Len(stack[t]) : stack[t][j].session # f.current
         /\ LET c == last[t] IN
            (c.frame.propagation \in {"REQUIRES_NEW", "NOT_SUPPORTED"}
                /\ c.frame.current # None) =>
                    /\ sessions[c.frame.current].state = "open"
                    /\ OpsOn(c.frame.current) \in Opening
                    /\ sessions[c.frame.current].pending = Rows(c.frame.current)
                    /\ GetCurrentSession(t) = c.frame.current
    /\ \A s, s2 \in DOMAIN sessions :
         (NestedIn(s2, s) /\ OpsOn(s) \in CommittedLogs) => Rows(s) \subseteq db

\* A transaction wrote a row, was suspended by a REQUIRES_NEW call that was
\* rolled back, then committed: its row is in the database.
C14_Witness ==
    \E s, s2 \in DOMAIN sessions :
        /\ NestedIn(s2, s)
        /\ Count("rollback", s2) = 1
        /\ OpsOn(s) \in CommittedLogs
        /\ sessions[s].writes > 0
        /\ Rows(s) \subseteq db

----------------------------------------------------------------------------
\* C15: a NEVER or NOT_SUPPORTED call made with an empty slot opens one
\* session and runs its unit of work with the slot still empty; however the
\* unit of work ends, the session is closed, with no commit and no rollback.
C15_UnscopedOnEmptySlot ==
    \A t \in Tasks :
        /\ \A i \in 1..Len(stack[t]) :
             LET f == stack[t][i] IN
             (f.propagation \in {"NEVER", "NOT_SUPPORTED"} /\ f.current = None) =>
                   /\ f.pc = IF f.propagation = "NEVER" THEN 100 ELSE 124
                   /\ sessions[f.session].state = "open"
                   /\ OpsOn(f.session) = UnscopedOpen
                   /\ (i = Len(stack[t]) => GetCurrentSession(t) = None)
                   /\ (i < Len(stack[t]) => stack[t][i + 1].current = None)
        /\ LET c == last[t]
               s == c.frame.session
           IN
           c.frame.pc \in {100, 124} =>
                   /\ c.frame.propagation = IF c.frame.pc = 100 THEN "NEVER"
                                                                ELSE "NOT_SUPPORTED"
                   /\ c.frame.current = None
                   /\ OpsOn(s) = UnscopedEnded
                   /\ sessions[s].state = "closed"
                   /\ Absent(s)
                   /\ GetCurrentSession(t) = None
                   /\ c.out = c.exc

\* A NOT_SUPPORTED call made with an empty slot has just ended by the
\* cancellation of its unit of work, which had written a row.
C15_Witness ==
    \E t \in Tasks :
        /\ last[t].frame.pc = 124
        /\ last[t].exc.cls = "CancelledError"
        /\ sessions[last[t].frame.session].writes > 0
        /\ sessions[last[t].frame.session].state = "closed"
        /\ GetCurrentSession(t) = None

----------------------------------------------------------------------------
\* C16 as stated: a SUPPORTS call made with an empty slot starts a scoped
\* transaction: its session is in the slot while the unit of work runs, is
\* committed when the unit of work returns, rolled back on a failure the
\* default rollback_for covers, and closed at exit.
C16_SupportsStartsScoped ==
    \A t \in Tasks :
        /\ \A i \in 1..Len(stack[t]) :
             LET f == stack[t][i] IN
             (f.propagation = "SUPPORTS" /\ f.current = None /\ i = Len(stack[t])) =>
                   GetCurrentSession(t) = f.session
        /\ LET c == last[t]
               s == c.frame.session
           IN
           (c.frame.propagation = "SUPPORTS" /\ c.frame.current = None /\ s # None) =>
                   /\ c.exc = NoExc =>
                         Count("commit", s) + Count("commit_failed", s) = 1
                   /\ (c.exc # NoExc /\ Eligible(c.exc, DefaultPolicy)) =>
                         Count("rollback", s) = 1
                   /\ Count("close", s) = 1

\* C16, amended: a SUPPORTS call made with an empty slot opens a session that
\* is not scoped: the session is never published in the slot, the manager
\* issues neither commit nor rollback on it however the unit of work ends, so
\* that the rows written through it never reach the database, and it is closed
\* at exit.
C16_SupportsOpensUnscoped ==
    \A t \in Tasks :
        /\ \A i \in 1..Len(stack[t]) :
             LET f == stack[t][i] IN
             (f.propagation = "SUPPORTS" /\ f.current = None) =>
                   /\ Count("set", f.session) = 0
                   /\ \A op \in LifecycleOps : Count(op, f.session) = 0
        /\ LET c == last[t]
               s == c.frame.session
           IN
           (c.frame.propagation = "SUPPORTS" /\ c.frame.current = None /\ s # None) =>
                   /\ c.frame.pc = 137
                   /\ OpsOn(s) = UnscopedEnded
                   /\ sessions[s].state = "closed"
                   /\ Absent(s)
                   /\ c.out = c.exc

\* A SUPPORTS call made with an empty slot has just returned; the row its unit
\* of work wrote is not in the database.
C16_Witness ==
    \E t \in Tasks :
        /\ last[t].frame.pc = 137
        /\ last[t].exc = NoExc
        /\ sessions[last[t].frame.session].writes > 0
        /\ Rows(last[t].frame.session) \cap db = {}
        /\ sessions[last[t].frame.session].state = "closed"

----------------------------------------------------------------------------
\* C17: a SUPPORTS call made with no transaction ambient yields a session it
\* has just opened, held by no other call, and the slot is empty for the whole
\* unit of work: while it runs, in the calls nested in it and between them.
C17_SupportsLeavesSlotEmpty ==
    \A t \in Tasks :
        \A i \in 1..Len(stack[t]) :
            LET f == stack[t][i] IN
            (f.propagation = "SUPPORTS" /\ f.current = None) =>
                  /\ f.pc = 137
                  /\ f.session \in DOMAIN sessions
                  /\ sessions[f.session].state = "open"
                  /\ Count("create", f.session) = 1
                  /\ \A j \in 1..Len(stack[t]) :
                        stack[t][j].session = f.session => j = i
                  /\ (i = Len(stack[t]) => GetCurrentSession(t) = None)
                  /\ (i < Len(stack[t]) => stack[t][i + 1].current = None)
                  /\ (i = Len(stack[t]) /\ last[t] # NoCall) =>
                        last[t].frame.current = None

\* Inside a SUPPORTS call made with an empty slot, a MANDATORY call has just
\* failed: the slot was empty there and still is.
C17_Witness ==
    \E t \in Tasks :
        /\ Len(stack[t]) = 1
        /\ stack[t][1].pc = 137
        /\ last[t].frame.pc = 88
        /\ GetCurrentSession(t) = None
        /\ sessions[stack[t][1].session].state = "open"

----------------------------------------------------------------------------
\* Task u takes no part in the step.
Idle(u) == stack'[u] = stack[u] /\ raised'[u] = raised[u] /\ last'[u] = last[u]

\* C18: with several tasks calling the manager in any interleaving, a task's
\* slot changes only in steps of that task, and the session a task sees in its
\* slot is never one another task opened, also for a task started while the
\* task that starts it has a transaction active.
C18_TasksIsolated ==
    /\ [](\A t \in started :
            GetCurrentSession(t) # None =>
                sessions[GetCurrentSession(t)].owner = t)
    /\ [][\A t \in started :
            slot'[t] # slot[t] => \A u \in Tasks \ {t} : Idle(u)]_vars

----------------------------------------------------------------------------
\* C19: every session the manager opens is closed by the generator that
\* opened it: a session that is open is held by a suspended generator whose
\* exit closes it, whatever the mode and however the call was prepared, so that
\* once the outermost call of a task has ended, no session the task opened
\* is open.
C19_EverySessionClosed ==
    /\ \A s \in DOMAIN sessions : sessions[s].state = "open" => Owned(s)
    /\ \A t \in Tasks :
         stack[t] = <<>> =>
            \A s \in DOMAIN sessions :
                sessions[s].owner = t => sessions[s].state = "closed"

----------------------------------------------------------------------------
\* The last call made on session s.
LastOp(s) == OpsOn(s)[Len(OpsOn(s))]

\* C20: a closed session is never yielded to a unit of work again and never
\* held in a slot, and nothing is called on it after its close; no session is
\* rolled back after a commit that succeeded or committed after a rollback.
C20_TerminalStates ==
    /\ \A t \in started :
         /\ GetCurrentSession(t) # None =>
                sessions[GetCurrentSession(t)].state = "open"
         /\ \A i \in 1..Len(stack[t]) :
                sessions[stack[t][i].session].state = "open"
    /\ \A s \in DOMAIN sessions :
         /\ Count("close", s) <= 1
         /\ sessions[s].state = "closed" <=> Count("close", s) = 1
         /\ Count("close", s) = 1 => LastOp(s) = "close"
         /\ Count("commit", s) <= 1
         /\ Count("rollback", s) <= 1
         /\ Count("commit", s) = 1 => Count("rollback", s) = 0
         /\ Count("rollback", s) = 1 =>
                \A op \in {"commit", "commit_failed"} :
                    Count(op, s) > 0 => Index(op, s) < Index("rollback", s)

----------------------------------------------------------------------------
----------------------------------------------------------------------------
\* Frame f belongs to a scoped transaction opened with the defaults of lines
\* 73-77.
DefaultDescriptor(f) ==
    /\ f.pc \in ScopedYields
    /\ ~f.read_only
    /\ f.rollback_for = DefaultPolicy.rollback_for
    /\ f.no_rollback_for = DefaultPolicy.no_rollback_for

\* C22: when the unit of work of a scoped transaction opened with the default
\* descriptor is cancelled (CancelledError, which is not an Exception), the
\* session is rolled back, never committed, then closed, and the slot holds
\* what it held before the call.
C22_CancellationRollsBack ==
    \A t \in Tasks :
        LET c == last[t]
            s == c.frame.session
        IN
        (DefaultDescriptor(c.frame) /\ c.exc.cls = "CancelledError") =>
            /\ OpsOn(s) \in RolledBackLogs
            /\ sessions[s].state = "closed"
            /\ GetCurrentSession(t) = c.frame.current

----------------------------------------------------------------------------
\* C23 as stated: when the unit of work of a scoped transaction returns, commit
\* is called exactly once if read_only is false and not at all if it is true;
\* in both cases the session is closed and no rollback is issued.
C23_ReturnNeverRollsBack ==
    \A t \in Tasks :
        LET c == last[t]
            s == c.frame.session
        IN
        (c.frame.pc \in ScopedYields /\ c.exc = NoExc) =>
            /\ Count("commit", s) + Count("commit_failed", s)
                  = IF c.frame.read_only THEN 0 ELSE 1
            /\ Count("close", s) = 1
            /\ sessions[s].state = "closed"
            /\ Count("rollback", s) = 0

\* C23, amended: when the unit of work of a scoped transaction returns, commit
\* is called exactly once if read_only is false and not at all if it is true;
\* in both cases the session is closed, and no rollback is issued unless the
\* commit call itself raises a failure the descriptor rolls back for.
C23_ReturnCommitsUnlessReadOnly ==
    \A t \in Tasks :
        LET c == last[t]
            s == c.frame.session
        IN
        (c.frame.pc \in ScopedYields /\ c.exc = NoExc) =>
            /\ Count("commit", s) + Count("commit_failed", s)
                  = IF c.frame.read_only THEN 0 ELSE 1
            /\ Count("close", s) = 1
            /\ sessions[s].state = "closed"
            /\ Count("rollback", s) <= 1
            /\ Count("rollback", s) = 1 <=>
                  (Count("commit_failed", s) = 1 /\ Eligible(CommitError, c.frame))
            /\ c.frame.read_only =>
                  /\ OpsOn(s) \in AbandonedLogs
                  /\ c.out = NoExc
            /\ Count("commit", s) = 1 =>
                  /\ OpsOn(s) \in CommittedLogs
                  /\ c.out = NoExc

\* A read-only scoped transaction whose unit of work wrote a row has just
\* returned: no commit, no rollback, the session closed.
C23_Witness ==
    \E t \in Tasks :
        /\ last[t].frame.pc \in ScopedYields
        /\ last[t].frame.read_only
        /\ last[t].exc = NoExc
        /\ sessions[last[t].frame.session].writes > 0
        /\ OpsOn(last[t].frame.session) \in AbandonedLogs

----------------------------------------------------------------------------
\* The first calls made on session s, up to n of them.
FirstOps(s, n) ==
    LET ops == OpsOn(s)
    IN SubSeq(ops, 1, IF Len(ops) < n THEN Len(ops) ELSE n)

\* The calls that open the session of a scoped transaction asked for with
\* isolation level iso.
OpeningWith(iso) ==
    IF iso # "None" THEN <<"create", "isolation", "set">> ELSE <<"create", "set">>

\* C24: a scoped transaction started with an isolation level has the level
\* applied to its new session before the session is set in the slot and so
\* before its unit of work runs; one started without a level has none applied.
\* A session whose level could not be applied is never set in the slot nor
\* written through.
C24_IsolationBeforePublication ==
    /\ \A t \in Tasks :
         /\ \A i \in 1..Len(stack[t]) :
              LET f == stack[t][i] IN
              f.pc \in ScopedYields =>
                  FirstOps(f.session, 3) = OpeningWith(f.isolation_level)
         /\ LET c == last[t] IN
            c.frame.pc \in ScopedYields =>
                  /\ FirstOps(c.frame.session, Len(OpeningWith(c.frame.isolation_level)))
                         = OpeningWith(c.frame.isolation_level)
                  /\ Count("isolation", c.frame.session)
                         = IF c.frame.isolation_level # "None" THEN 1 ELSE 0
    /\ \A s \in DOMAIN sessions :
         /\ Count("isolation", s) = 1 =>
               /\ Count("set", s) = 1
               /\ Index("create", s) < Index("isolation", s)
               /\ Index("isolation", s) < Index("set", s)
         /\ Count("isolation_failed", s) = 1 =>
               /\ Count("set", s) = 0
               /\ sessions[s].writes = 0
               /\ ~Held(s)
         /\ Count("set", s) = 0 /\ Count("isolation_failed", s) = 0 =>
               Count("isolation", s) = 0

\* A transaction started with isolation level SERIALIZABLE, whose unit of work
\* has written a row, is running.
C24_Witness ==
    \E t \in Tasks :
        /\ stack[t] # <<>>
        /\ Top(t).pc \in ScopedYields
        /\ Top(t).isolation_level = "SERIALIZABLE"
        /\ OpsOn(Top(t).session) = <<"create", "isolation", "set">>
        /\ sessions[Top(t).session].writes > 0
        /\ GetCurrentSession(t) = Top(t).session

----------------------------------------------------------------------------
\* decorators.py: the ValueError of line 29.
InvalidPropagationError == [cls |-> "ValueError", msg |-> "Invalid propagation"]

\* decorators.py lines 20-27: the set `valid`.
valid == {"REQUIRED", "REQUIRES_NEW", "SUPPORTS", "MANDATORY", "NOT_SUPPORTED",
          "NEVER"}

\* transactional(propagation=..., ...) applied: the failure of line 29, or the
\* metadata of lines 30-36 the decorator attaches to the function.
transactional(d) ==
    IF d.propagation \notin valid
    THEN [raised |-> InvalidPropagationError, meta |-> None]
    ELSE [raised |-> NoExc, meta |-> d]

\* C25: a call of transaction() with a propagation outside the six known ones
\* fails with the ValueError "Unknown propagation", whether the slot is empty
\* or occupied: no generator is ever suspended for it (no unit of work runs
\* under it), the failing step opens no session, calls nothing on any session
\* and leaves the slot as it was.  The decorator transactional raises its
\* ValueError for exactly those propagations when it is applied.
C25_UnknownPropagationFails ==
    /\ [](/\ \A t \in Tasks :
               /\ \A i \in 1..Len(stack[t]) : stack[t][i].propagation \in valid
               /\ last[t].frame.propagation \notin valid \cup {NoCall.frame.propagation} =>
                     /\ last[t].frame.pc = 187
                     /\ last[t].frame.session = None
                     /\ last[t].exc = NoExc
                     /\ last[t].out = UnknownError
                     /\ raised[t] = UnknownError
                     /\ GetCurrentSession(t) = last[t].frame.current
          /\ \A d \in Descriptors :
               /\ d.propagation \notin valid =>
                     transactional(d) = [raised |-> InvalidPropagationError,
                                         meta |-> None]
               /\ d.propagation \in valid =>
                     transactional(d) = [raised |-> NoExc, meta |-> d])
    /\ [][\A t \in Tasks :
            (Ends(t) /\ last'[t].frame.propagation \notin valid) =>
                /\ NothingDone
                /\ slot[t] = last'[t].frame.current
                /\ raised[t] = NoExc
                /\ last'[t].frame.pc = 187]_vars

\* A call with an unknown propagation made inside a running transaction has
\* just failed, the transaction's session still in the slot.
C25_Witness ==
    \E t \in Tasks :
        /\ last[t].frame.pc = 187
        /\ last[t].out = UnknownError
        /\ last[t].frame.current # None
        /\ stack[t] # <<>>
        /\ GetCurrentSession(t) = Top(t).session
        /\ GetCurrentSession(t) = last[t].frame.current

----------------------------------------------------------------------------
\* C26: get_session returns the session in the slot of the task that calls it
\* when that slot is occupied, and raises the RuntimeError "No active
\* transaction" exactly when it is empty; the step opens no session, calls
\* nothing on any session and changes no slot.
C26_GetSessionReadsOwnSlot ==
    /\ [](\A t \in Tasks :
            /\ last[t].frame.pc = 233 =>
                  /\ last[t].frame.session = GetCurrentSession(t)
                  /\ last[t].frame.session # None
                  /\ last[t].out = NoExc
            /\ last[t].frame.pc = 232 =>
                  /\ GetCurrentSession(t) = None
                  /\ last[t].frame.session = None
                  /\ last[t].out = NoTransactionError
                  /\ raised[t] = NoTransactionError)
    /\ [][\A t \in Tasks :
            (Ends(t) /\ last'[t].frame.pc \in {232, 233}) =>
                /\ NothingDone
                /\ Len(sessions') = Len(sessions)
                /\ (last'[t].frame.pc = 232) <=> (slot[t] = None)
                /\ last'[t].frame.pc = 233 =>
                      /\ last'[t].frame.session = slot[t]
                      /\ raised' = raised]_vars

\* Two tasks run transactions of their own, and get_session has just returned
\* to one of them the session of its own slot, not the other task's.
C26_Witness ==
    \E t \in Tasks, u \in Tasks :
        /\ last[t].frame.pc = 233
        /\ last[t].frame.session = GetCurrentSession(t)
        /\ GetCurrentSession(u) # None
        /\ GetCurrentSession(u) # GetCurrentSession(t)

----------------------------------------------------------------------------
\* The lines at which create_session() is called.
CreateLines == {98, 110, 122, 135, 197}

\* C27: when create_session() raises, in whichever branch calls it, the call
\* that made it (the one ended with that failure and no failure of a unit of
\* work) ends with that failure: no generator is suspended for it (its unit of work
\* does not run), the step opens no session and calls nothing on any session,
\* and the slot holds what it held when the call was made, also where line 108
\* or line 147 had emptied it.
C27_FactoryFailureRestoresSlot ==
    /\ [](\A t \in Tasks :
            (last[t].out = FactoryError /\ last[t].exc = NoExc) =>
                /\ last[t].frame.pc \in CreateLines
                /\ last[t].frame.propagation \in
                       {"NEVER", "NOT_SUPPORTED", "SUPPORTS", "REQUIRES_NEW", "REQUIRED"}
                /\ last[t].frame.session = None
                /\ raised[t] = FactoryError
                /\ GetCurrentSession(t) = last[t].frame.current)
    /\ [][\A t \in Tasks :
            (Ends(t) /\ last'[t].out = FactoryError /\ last'[t].exc = NoExc) =>
                /\ NothingDone
                /\ slot'[t] = last'[t].frame.current
                /\ raised[t] = NoExc]_vars

\* REQUIRES_NEW was called inside a running transaction and the factory has
\* just failed: the outer transaction's session is in the slot again.
C27_Witness ==
    \E t \in Tasks :
        /\ last[t].out = FactoryError
        /\ last[t].frame.pc = 197
        /\ last[t].frame.propagation = "REQUIRES_NEW"
        /\ stack[t] # <<>>
        /\ Top(t).pc \in ScopedYields
        /\ GetCurrentSession(t) = Top(t).session

----------------------------------------------------------------------------
\* C28: when session.connection(...) raises while a scoped transaction is being
\* started, the session just created has been closed once the failure has
\* reached the caller.
C28_IsolationFailureClosesSession ==
    \A t \in Tasks :
        LET c == last[t] IN
        (c.out = IsolationError /\ c.exc = NoExc) =>
            /\ c.frame.pc = 200
            /\ raised[t] = IsolationError
            /\ Count("close", c.frame.session) = 1
            /\ sessions[c.frame.session].state = "closed"

----------------------------------------------------------------------------
\* C29: when session.commit() raises at the end of a scoped transaction whose
\* unit of work returned, the failure is classified as a failure of the unit
\* of work would be: rollback is called once iff the failure matches
\* rollback_for and not no_rollback_for, after the failed commit and before the
\* reset of the slot and the close; the slot holds its pre-call value, the
\* session is closed, none of its rows is in the database, and the caller gets
\* the commit's failure.
C29_CommitFailureClassified ==
    \A t \in Tasks :
        LET c == last[t]
            s == c.frame.session
        IN
        (c.frame.pc \in ScopedYields /\ c.exc = NoExc /\ c.out # NoExc) =>
            /\ c.out = CommitError
            /\ raised[t] = CommitError
            /\ ~c.frame.read_only
            /\ Count("commit_failed", s) = 1
            /\ Count("commit", s) = 0
            /\ Count("rollback", s) =
                   IF ShouldRollback(CommitError, c.frame.rollback_for,
                                     c.frame.no_rollback_for) THEN 1 ELSE 0
            /\ Count("rollback", s) = 1 =>
                   /\ Index("commit_failed", s) < Index("rollback", s)
                   /\ Index("rollback", s) < Index("reset", s)
            /\ Count("reset", s) = 1
            /\ Count("close", s) = 1
            /\ Index("commit_failed", s) < Index("reset", s)
            /\ Index("reset", s) < Index("close", s)
            /\ sessions[s].state = "closed"
            /\ GetCurrentSession(t) = c.frame.current
            /\ Absent(s)

\* The commit of a transaction that wrote a row has just failed under the
\* default rollback_for: the session was rolled back and the caller has the
\* commit's failure.
C29_Witness ==
    \E t \in Tasks :
        LET c == last[t] IN
        /\ c.frame.pc \in ScopedYields
        /\ c.exc = NoExc
        /\ c.out = CommitError
        /\ raised[t] = CommitError
        /\ sessions[c.frame.session].writes > 0
        /\ Eligible(CommitError, c.frame)
        /\ Count("rollback", c.frame.session) = 1

----------------------------------------------------------------------------
\* The propagations that join the session in the slot (lines 85, 129, 172).
Joining == {"MANDATORY", "SUPPORTS", "REQUIRED"}

\* Every descriptor a call with propagation p can be made with.
JoinDescriptors(p) ==
    {Descriptor(p, ro, iso, pol) :
        ro \in BOOLEAN, iso \in IsolationLevels, pol \in Policies}

\* The call task t makes with descriptor d.
CallWith(t, d) ==
    Call(d.propagation, GetCurrentSession(t), d.read_only, d.isolation_level,
         d.rollback_for, d.no_rollback_for)

\* C30: a call that joins the session in the slot does the same whatever its
\* own read_only, isolation_level, rollback_for and no_rollback_for are, and
\* calls nothing on the session; what is called on a scoped session by the time
\* its transaction has ended is fixed by the descriptor of the call that opened
\* it and by what that call's unit of work ended with: the isolation level is
\* that call's, a commit is attempted iff its unit of work returned and it is
\* not read-only, and rollback is called iff the failure it ended with (of the
\* unit of work or of the commit) is eligible under its rollback_for and
\* no_rollback_for.
C30_JoinerDescriptorIgnored ==
    /\ [](\A t \in Tasks :
            LET c == last[t]
                s == c.frame.session
                f == c.frame
            IN
            f.pc \in ScopedYields =>
                /\ Count("isolation", s) = IF f.isolation_level # "None" THEN 1 ELSE 0
                /\ Count("commit", s) + Count("commit_failed", s)
                       = IF c.exc = NoExc /\ ~f.read_only THEN 1 ELSE 0
                /\ Count("commit", s)
                       = IF c.exc = NoExc /\ ~f.read_only /\ c.out = NoExc THEN 1 ELSE 0
                /\ Count("rollback", s)
                       = IF c.out # NoExc /\ Eligible(c.out, f) THEN 1 ELSE 0
                /\ c.out # c.exc => (c.exc = NoExc /\ c.out = CommitError))
    /\ [][\A t \in Tasks :
            (Len(stack'[t]) = Len(stack[t]) + 1 /\ Top(t)'.pc \in JoinYields) =>
                /\ Top(t)'.propagation \in Joining
                /\ GetCurrentSession(t) # None
                /\ Top(t)'.session = GetCurrentSession(t)
                /\ \A d \in JoinDescriptors(Top(t)'.propagation) :
                       Transaction(t, CallWith(t, d))
                /\ UNCHANGED <<slot, sessions, db, log, raised>>]_vars

\* A read-only SERIALIZABLE transaction has been joined by a REQUIRED call,
\* through which a row was written: the session has had no call since it was
\* set in the slot.
C30_Witness ==
    \E t \in Tasks :
        /\ Len(stack[t]) = 2
        /\ stack[t][1].pc \in ScopedYields
        /\ stack[t][1].read_only
        /\ stack[t][1].isolation_level = "SERIALIZABLE"
        /\ stack[t][2].pc = 175
        /\ stack[t][2].session = stack[t][1].session
        /\ sessions[stack[t][1].session].writes > 0
        /\ OpsOn(stack[t][1].session) = <<"create", "isolation", "set">>

----------------------------------------------------------------------------
\* Failing joined units.  The callers of this specification write rows only in
\* the unit of work of a joining call, every such unit of work ends with a
\* failure (one it raises or one of a call it made), and that failure is
\* caught in the unit of work of the call that opened the session, which then
\* returns.

\* The unit of work on top of t's stack is that of a joining call.
InJoined(t) == stack[t] # <<>> /\ Top(t).pc \in JoinYields

\* The unit of work on top of t's stack is that of a call that opened a scoped
\* transaction.
InOwner(t) == stack[t] # <<>> /\ Top(t).pc \in ScopedYields

NextJoined ==
    \E t \in Tasks :
        \/ \E d \in Descriptors : Running(t) /\ Transaction(t, CallWith(t, d))
        \/ Running(t) /\ raised[t] # NoExc /\ ExitJoin(t)
        \/ Running(t) /\ ExitUnscoped(t)
        \/ \E commits \in BOOLEAN :
                Running(t) /\ raised[t] = NoExc /\ ExitScoped(t, commits)
        \/ Running(t) /\ InJoined(t) /\ Write(t)
        \/ \E e \in UowFailures : Running(t) /\ InJoined(t) /\ Raise(t, e)
        \/ Running(t) /\ InOwner(t) /\ Catch(t)

SpecJoined == Init /\ [][NextJoined]_vars

\* C31: when joined units of work have failed and the unit of work that owns
\* the transaction has caught the failures and returned, with read_only false,
\* the owner's exit calls commit and no rollback, and when the commit succeeds
\* every row written through the session, those of the failed joined units
\* included, is in the database.
C31_JoinedFailureNotRollbackOnly ==
    \A t \in Tasks :
        LET c == last[t]
            s == c.frame.session
        IN
        (c.frame.pc \in ScopedYields /\ c.exc = NoExc /\ ~c.frame.read_only) =>
            /\ Count("commit", s) + Count("commit_failed", s) = 1
            /\ c.out = NoExc =>
                  /\ OpsOn(s) \in CommittedLogs
                  /\ Count("rollback", s) = 0
                  /\ Rows(s) \subseteq db
                  /\ sessions[s].pending = {}

\* A transaction whose only row was written by a joined unit of work that
\* failed has just committed: the row is in the database.
C31_Witness ==
    \E t \in Tasks :
        LET c == last[t] IN
        /\ c.frame.pc \in ScopedYields
        /\ c.exc = NoExc
        /\ c.out = NoExc
        /\ ~c.frame.read_only
        /\ sessions[c.frame.session].writes > 0
        /\ Rows(c.frame.session) \subseteq db
        /\ OpsOn(c.frame.session) \in CommittedLogs

----------------------------------------------------------------------------
\* The ways the calls on the session of a scoped transaction that has ended
\* can go after its opening.
ScopedEndings ==
    {<<"commit", "reset", "close">>, <<"rollback", "reset", "close">>,
     <<"reset", "close">>, <<"commit_failed", "rollback", "reset", "close">>,
     <<"commit_failed", "reset", "close">>}

\* The yields of the unscoped calls made with an empty slot.
EmptySlotYields == {100, 124, 137}

----------------------------------------------------------------------------
\* Two managers.  The callers make their calls on either manager; _tx_context
\* is a module-level variable (lines 12-14), one for all managers.

NextManagers ==
    \E t \in Tasks :
        \/ \E m \in Managers, d \in TaskDescriptors :
                /\ Running(t)
                /\ Transaction(t, CallOn(m, CallWith(t, d)))
        \/ Running(t) /\ ExitJoin(t)
        \/ Running(t) /\ ExitUnscoped(t)
        \/ \E commits \in BOOLEAN : Running(t) /\ ExitScoped(t, commits)
        \/ \E e \in TaskFailures : Running(t) /\ Raise(t, e)
        \/ Running(t) /\ Catch(t)

SpecManagers == Init /\ [][NextManagers]_vars

\* manager.get_current_session() on manager m in task t: lines 66-68 read the
\* module-level variable and nothing of self.
GetCurrentSessionOf(m, t) == GetCurrentSession(t)

\* C33: a REQUIRED, SUPPORTS or MANDATORY call made with an occupied slot is
\* yielded the session in the slot whichever manager it is made on and
\* whichever manager's factory made the session, and opens no session;
\* get_current_session of every manager gives the session in the task's slot.
\* A session is made by the factory of the manager whose call opens it.
C33_SlotSharedByManagers ==
    /\ [](\A t \in Tasks :
            /\ \A i \in 1..Len(stack[t]) :
                 LET f == stack[t][i] IN
                 /\ (f.propagation \in Joining /\ f.current # None) =>
                        /\ f.pc \in JoinYields
                        /\ f.session = f.current
                        /\ sessions[f.session].state = "open"
                        /\ (i = Len(stack[t]) =>
                               \A m \in Managers :
                                   GetCurrentSessionOf(m, t) = f.session)
                 /\ f.pc \notin JoinYields => sessions[f.session].manager = f.manager
            /\ \A m \in Managers : GetCurrentSessionOf(m, t) = slot[t])
    /\ [][\A t \in Tasks :
            (/\ Len(stack'[t]) = Len(stack[t]) + 1
             /\ Top(t)'.propagation \in Joining
             /\ GetCurrentSession(t) # None) =>
                /\ Top(t)'.session = GetCurrentSession(t)
                /\ UNCHANGED <<slot, sessions, db, log>>]_vars

\* A call made on one manager has joined the transaction another manager
\* opened: it was yielded that manager's session, which is in the slot, and no
\* other session exists.
C33_Witness ==
    \E t \in Tasks :
        /\ Len(stack[t]) = 2
        /\ stack[t][1].pc \in ScopedYields
        /\ stack[t][2].pc \in JoinYields
        /\ stack[t][2].manager # stack[t][1].manager
        /\ stack[t][2].session = stack[t][1].session
        /\ sessions[stack[t][2].session].manager = stack[t][1].manager
        /\ GetCurrentSessionOf(stack[t][2].manager, t) = stack[t][1].session
        /\ Len(sessions) = 1

----------------------------------------------------------------------------
\* TransactionalInterceptor (interceptor.py).

\* No metadata: getattr(..., None) gave None.
NoMeta == Descriptor("NONE", FALSE, "None", [rollback_for |-> {}, no_rollback_for |-> {}])

\* The intercepted methods: what @transactional attached to the function, if
\* anything (decorators.py line 39), whether @query decorated it (line 67) and
\* whether its class is a @repository (line 88).
Methods ==
    {[transactional |-> d, query |-> q, repository |-> r] :
        d \in {NoMeta} \cup {x \in TaskDescriptors : transactional(x).raised = NoExc},
        q \in BOOLEAN, r \in BOOLEAN}

\* interceptor.py lines 14-37: the descriptor invoke picks for the method.
InterceptorMeta(method) ==
    IF method.transactional # NoMeta THEN method.transactional
    ELSE IF method.query THEN Descriptor("REQUIRED", TRUE, "None", DefaultPolicy)
    ELSE IF method.repository THEN Descriptor("REQUIRED", FALSE, "None", DefaultPolicy)
    ELSE NoMeta

\* What call_next(ctx) returns: a value, or an awaitable of it.
Continuation(awaitable) == [awaitable |-> awaitable, value |-> "result"]

\* `await result` when inspect.isawaitable(result), else result (lines 41-43).
Awaited(result) == [awaitable |-> FALSE, value |-> result.value]

NoResult == [awaitable |-> FALSE, value |-> "None"]

\* `async with` on the object transaction() returns.  session.py decorates
\* transaction with contextlib.contextmanager (line 70), whose objects have
\* __enter__ and __exit__ only: the statement raises TypeError (AttributeError
\* before Python 3.11) without running any of the generator.
AsyncWithError ==
    [cls |-> "TypeError",
     msg |-> "object does not support the asynchronous context manager protocol"]

\* The record of an ended invoke: the line it ended at, the descriptor picked,
\* how often it called call_next and what it returned or raised.
Invoked(t, pc, meta, calls, result, out) ==
    [frame |-> Frame(pc, CallWith(t, meta), None, None, None),
     exc |-> NoExc, out |-> out, meta |-> meta, calls |-> calls, result |-> result]

\* The lines invoke ends at: the return of lines 42-43 and the `async with` of
\* line 51.
InvokeLines == {43, 51}

\* TransactionalInterceptor.invoke, lines 13-61.
Invoke(t, method, awaitable) ==
    /\ raised[t] = NoExc
    /\ LET meta == InterceptorMeta(method) IN
       IF meta = NoMeta
       THEN /\ last' = [last EXCEPT ![t] =
                           Invoked(t, 43, meta, 1, Awaited(Continuation(awaitable)),
                                   NoExc)]
            /\ UNCHANGED raised
       ELSE /\ last' = [last EXCEPT ![t] =
                           Invoked(t, 51, meta, 0, NoResult, AsyncWithError)]
            /\ raised' = [raised EXCEPT ![t] = AsyncWithError]
    /\ UNCHANGED <<slot, stack, sessions, db, log>>

\* A running task invokes an intercepted method, makes a call of the manager
\* itself, or catches a failure.
NextInterceptor ==
    \E t \in Tasks :
        \/ \E method \in Methods, awaitable \in BOOLEAN :
                Running(t) /\ Invoke(t, method, awaitable)
        \/ \E d \in TaskDescriptors :
                /\ Running(t)
                /\ Len(stack[t]) < MaxTaskDepth
                /\ Transaction(t, CallWith(t, d))
        \/ Running(t) /\ ExitJoin(t)
        \/ Running(t) /\ ExitUnscoped(t)
        \/ \E commits \in BOOLEAN : Running(t) /\ ExitScoped(t, commits)
        \/ Running(t) /\ Catch(t)

SpecInterceptor == Init /\ [][NextInterceptor]_vars

\* C34: invoke picks the method's own transactional metadata, else REQUIRED
\* read-only for a query method, else REQUIRED for a method of a repository,
\* else none, in which case it opens no session; and in every case it calls
\* the continuation exactly once and returns the continuation's awaited
\* result.
C34_InvokeRunsContinuationOnce ==
    \A t \in Tasks :
        LET c == last[t] IN
        c.frame.pc \in InvokeLines =>
            /\ c.calls = 1
            /\ c.out = NoExc
            /\ raised[t] = NoExc
            /\ c.result.value = "result"
            /\ ~c.result.awaitable

----------------------------------------------------------------------------
\* RepositoryQueryInterceptor (repository_interceptor.py) and paging.py.

\* {c.name for c in entity.__table__.columns} (line 117) of the entity the
\* repository is declared with.
valid_columns == {"id", "name", "age"}

\* The fields and directions requests ask for.
SortFields == {"name", "age", "hacked_column"}
Directions == {"ASC", "DESC", "desc", "Desc", "sideways"}

\* paging.py lines 8-11: Sort(field, direction).
Sort(field, direction) == [field |-> field, direction |-> direction]

\* PageRequest.sorts (paging.py line 18): up to MaxSorts sorts.
SortLists ==
    UNION {[1..n -> {Sort(f, d) : f \in SortFields, d \in Directions}] :
              n \in 0..MaxSorts}

\* str.upper() on the directions.
Upper(direction) ==
    CASE direction \in {"ASC"}                  -> "ASC"
      [] direction \in {"DESC", "desc", "Desc"} -> "DESC"
      [] direction = "sideways"                 -> "SIDEWAYS"

\* The direction compared as it is written.
DirectionCaseSensitive(s) == IF s.direction = "DESC" THEN "DESC" ELSE "ASC"

\* line 122
Direction(s) == IF Upper(s.direction) = "DESC" THEN "DESC" ELSE "ASC"

InvalidSortError == [cls |-> "ValueError", msg |-> "Invalid sort field"]

\* The loop of lines 119-123 over the sorts left, sort_parts being the parts
\* appended so far.
RECURSIVE SortParts(_, _)
SortParts(sorts, sort_parts) ==
    IF sorts = <<>>
    THEN [raised |-> NoExc, sort_parts |-> sort_parts]
    ELSE IF Head(sorts).field \notin valid_columns
    THEN [raised |-> InvalidSortError, sort_parts |-> sort_parts]
    ELSE SortParts(Tail(sorts),
                   Append(sort_parts, <<Head(sorts).field, Direction(Head(sorts))>>))

\* The record of an ended query: the line it ended at, the session it got,
\* the request, the ORDER BY parts built and what it raised.
Queried(t, pc, session, paged, sorts, sort_parts, out) ==
    [frame |-> Frame(pc, GetSessionCall(t), session, None, None),
     exc |-> NoExc, out |-> out, paged |-> paged, sorts |-> sorts,
     sort_parts |-> sort_parts]

\* `await session.execute(...)` on the session get_session returns.  The
\* manager's sessions come from sessionmaker over create_engine (session.py
\* lines 43-55): execute runs the statement and returns a Result, which is not
\* awaitable, so the await raises TypeError.
AwaitError ==
    [cls |-> "TypeError", msg |-> "object can't be used in 'await' expression"]

\* The lines a query ends at: get_session raising at line 25, the raise of
\* line 121 and the awaits of lines 129 and 141.
QueryLines == {25, 121, 129, 141}

\* RepositoryQueryInterceptor.invoke for a method with @query(expr=...) of a
\* repository with an entity (lines 17-33), then _execute_expr (lines 90-145);
\* a paged query is called with page = PageRequest(page, size, sorts).  The
\* log gets the statement executed: the count of line 129 over the SELECT with
\* its ORDER BY, or the SELECT of line 141.
ExecuteExpr(t, paged, sorts) ==
    /\ raised[t] = NoExc
    /\ LET session == GetCurrentSession(t)
           built   == IF paged THEN SortParts(sorts, <<>>)
                               ELSE [raised |-> NoExc, sort_parts |-> <<>>]
           w       == World(t)
       IN
       IF session = None
       THEN /\ last' = [last EXCEPT ![t] =
                 Queried(t, 25, None, paged, sorts, <<>>, NoTransactionError)]
            /\ raised' = [raised EXCEPT ![t] = NoTransactionError]
            /\ UNCHANGED <<slot, sessions, db, log>>
       ELSE /\ Count("count", session) + Count("select", session) < MaxQueries
            /\ IF built.raised # NoExc
               THEN /\ last' = [last EXCEPT ![t] =
                         Queried(t, 121, session, paged, sorts, built.sort_parts,
                                 built.raised)]
                    /\ raised' = [raised EXCEPT ![t] = built.raised]
                    /\ UNCHANGED <<slot, sessions, db, log>>
               ELSE /\ Install(t, Logged(w, IF paged THEN "count" ELSE "select",
                                          session))
                    /\ last' = [last EXCEPT ![t] =
                         Queried(t, IF paged THEN 129 ELSE 141, session, paged,
                                 sorts, built.sort_parts, AwaitError)]
                    /\ raised' = [raised EXCEPT ![t] = AwaitError]
    /\ UNCHANGED stack

\* The transactions the queries run in: REQUIRED, read-write or read-only.
QueryDescriptors ==
    {Descriptor("REQUIRED", ro, "None", DefaultPolicy) : ro \in BOOLEAN}

\* A running task starts or ends a transaction, runs a query of a repository
\* or catches a failure.
NextRepository ==
    \E t \in Tasks :
        \/ \E paged \in BOOLEAN, sorts \in SortLists :
                Running(t) /\ ExecuteExpr(t, paged, sorts)
        \/ \E d \in QueryDescriptors :
                /\ Running(t)
                /\ Len(stack[t]) < MaxTaskDepth
                /\ Transaction(t, CallWith(t, d))
        \/ Running(t) /\ ExitJoin(t)
        \/ \E commits \in BOOLEAN : Running(t) /\ ExitScoped(t, commits)
        \/ Running(t) /\ Catch(t)

SpecRepository == Init /\ [][NextRepository]_vars

\* The directions that equal DESC when case is ignored.
DescSpellings == {"DESC", "desc", "Desc"}

\* C35: a paged expr query asked for a sort field that is no column of the
\* entity ends with the ValueError "Invalid sort field" and has executed no
\* statement on the session; a paged query whose sort fields are all columns
\* has executed its first statement with one ORDER BY part for each sort, in
\* the order asked, with DESC when the direction asked is a spelling of DESC
\* and ASC in every other case.
C35_SortValidatedBeforeExecution ==
    /\ [](\A t \in Tasks :
            LET c == last[t] IN
            (c.frame.pc \in QueryLines /\ c.frame.session # None /\ c.paged) =>
                IF \E i \in 1..Len(c.sorts) : c.sorts[i].field \notin valid_columns
                THEN /\ c.frame.pc = 121
                     /\ c.out = InvalidSortError
                     /\ raised[t] = InvalidSortError
                ELSE /\ c.frame.pc = 129
                     /\ Len(c.sort_parts) = Len(c.sorts)
                     /\ \A i \in 1..Len(c.sorts) :
                           c.sort_parts[i] =
                               <<c.sorts[i].field,
                                 IF c.sorts[i].direction \in DescSpellings
                                 THEN "DESC" ELSE "ASC">>)
    /\ [][\A t \in Tasks :
            (Ends(t) /\ last'[t].frame.pc \in QueryLines) =>
                /\ last'[t].frame.session = GetCurrentSession(t)
                /\ last'[t].frame.pc = 121 => NothingDone
                /\ last'[t].frame.pc = 129 =>
                      log' = Append(log, <<"count", last'[t].frame.session>>)]_vars

\* A paged query sorted by name "desc" and then by a field that is no column
\* has just failed: nothing was executed on the session in the slot.
C35_Witness ==
    \E t \in Tasks :
        LET c == last[t] IN
        /\ c.frame.pc = 121
        /\ c.paged
        /\ c.sorts = <<Sort("name", "desc"), Sort("hacked_column", "ASC")>>
        /\ c.out = InvalidSortError
        /\ c.frame.session = GetCurrentSession(t)
        /\ OpsOn(c.frame.session) \in Opening

====
